---- MODULE Spec2Model ----
(***************************************************************************)
(* Model of the /extract flow of the MindSparkle Document Intelligence     *)
(* service (src/cloud-run/document-intelligence/main.py): format           *)
(* detection, the PDF / PPTX / DOCX / TXT extractors, the recognition      *)
(* cascade ocr_image and the canonical model builder.                      *)
(*                                                                         *)
(* Text is a sequence of code points.  An Optional[str] is a record        *)
(* [some, text].  A confidence is an exact fraction [n, d] (n/d), so that  *)
(* the average computed by the structured-extraction stage loses nothing.  *)
(* Everything the code obtains from a library or a remote service (parsed  *)
(* containers, service replies, exceptions) is an input drawn from a       *)
(* bounded set.                                                            *)
(***************************************************************************)
EXTENDS Integers, Sequences, FiniteSets, TLC

VARIABLES
    cfg,               \* process-wide configuration, read at import time
    pc,                \* position of the request handler
    input,             \* the request: filename, mimetype, file, request_id
    file_type,         \* detect_file_type's tag
    text_blocks,       \* locals of the running extractor
    tables,
    images,
    raw_text,
    method,
    confidence,
    page_count,
    thumbnails_added,
    page_num,          \* 0-based index of the page / slide / rel being visited
    img_index,         \* 0-based index of the image / shape being visited
    slide_texts,       \* extract_pptx: the text-frame paragraphs of the current slide
    da_result,         \* extract_pdf: what the Document AI stage returned
    result,            \* the ExtractionResult handed to the orchestrator
    response,          \* the HTTP response of /extract
    calls,             \* how often each engine was invoked in this request
    lastOcr,           \* the most recent ocr_image call: its inputs and outcome
    other              \* the request of the other worker thread, while this one runs

vars == <<cfg, pc, input, file_type, text_blocks, tables, images, raw_text,
          method, confidence, page_count, thumbnails_added, page_num,
          img_index, slide_texts, da_result, result, response, calls, lastOcr,
          other>>

----------------------------------------------------------------------------
(* Bounds of the model *)

MaxPages == 2          \* pages of a PDF
MaxSlides == 2         \* slides of a PPTX
MaxParas == 2          \* paragraphs of a DOCX
MaxBytes == 3          \* length of a TXT byte buffer

----------------------------------------------------------------------------
(* Text *)

Rep(c, n) == [i \in 1..n |-> c]

Min(S) == CHOOSE x \in S : \A y \in S : x <= y
Max(S) == CHOOSE x \in S : \A y \in S : x >= y

\* str.isspace() for the code points below 256
IsSpace(c) == c \in {9, 10, 11, 12, 13, 28, 29, 30, 31, 32, 133, 160}

\* str.strip()
Strip(s) ==
    LET keep == {i \in 1..Len(s) : ~IsSpace(s[i])}
    IN  IF keep = {} THEN <<>> ELSE SubSeq(s, Min(keep), Max(keep))

\* sep.join(parts)
RECURSIVE Join(_, _)
Join(parts, sep) ==
    IF parts = <<>> THEN <<>>
    ELSE IF Len(parts) = 1 THEN parts[1]
    ELSE parts[1] \o sep \o Join(Tail(parts), sep)

\* '\n\n'.join([b['text'] for b in text_blocks])
JoinBlocks(blocks) ==
    Join([i \in 1..Len(blocks) |-> blocks[i].text], <<10, 10>>)

\* full_text[start:end]
Slice(s, start, end) ==
    SubSeq(s, start + 1, IF end < Len(s) THEN end ELSE Len(s))

\* Optional[str]
None == [some |-> FALSE, text |-> <<>>]
Some(t) == [some |-> TRUE, text |-> t]
Truthy(o) == o.some /\ o.text # <<>>

\* confidences, as exact fractions
Q(n, d) == [n |-> n, d |-> d]
Pct(p) == Q(p, 100)
QGe(a, b) == a.n * b.d >= b.n * a.d
QEq(a, b) == a.n * b.d = b.n * a.d

\* sample texts
TInvoice == <<73, 110, 118, 111, 105, 99, 101, 32, 35, 49, 50, 51>>   \* "Invoice #123"
TPadded == <<32>> \o TInvoice \o <<10>>
TBlank == <<32, 10>>
TLong == Rep(97, 21)

----------------------------------------------------------------------------
(* Recognition cascade: ocr_image and its two generative tiers *)

\* What the three services answer for one image.
\*   vision: the client raises, or replies with a list of annotation descriptions
\*   vertex: token/network exception, a non-200 status, or 200 with the
\*           concatenated text parts of the first candidate
\*   openai: network exception, a non-200 status, a 200 body without
\*           choices[0].message.content, or 200 with that content
OcrTexts == {<<>>, TBlank, TInvoice, TPadded, TLong}

VisionOutcomes ==
    {[kind |-> "raise", annots |-> <<>>], [kind |-> "ok", annots |-> <<>>]}
    \cup {[kind |-> "ok", annots |-> <<t>>] : t \in OcrTexts}
    \cup {[kind |-> "ok", annots |-> <<TInvoice, <<73>> >>]}

VertexOutcomes ==
    {[kind |-> k, text |-> <<>>] : k \in {"exc", "non200"}}
    \cup {[kind |-> "ok", text |-> t] : t \in OcrTexts}

OpenAIOutcomes ==
    {[kind |-> k, text |-> <<>>] : k \in {"exc", "non200", "malformed"}}
    \cup {[kind |-> "ok", text |-> t] : t \in OcrTexts}

OcrEnvs == [vision : VisionOutcomes, vertex : VertexOutcomes, openai : OpenAIOutcomes]

\* ocr_with_vertex_gemini: [exc, val]
ocr_with_vertex_gemini(v) ==
    IF v.kind = "exc" THEN [exc |-> TRUE, val |-> None]
    ELSE IF v.kind # "ok" THEN [exc |-> TRUE, val |-> None]
    ELSE LET text == Strip(v.text)
         IN  [exc |-> FALSE, val |-> IF text # <<>> THEN Some(text) ELSE None]

\* ocr_with_openai: [exc, val]
ocr_with_openai(o) ==
    IF o.kind = "exc" THEN [exc |-> TRUE, val |-> None]
    ELSE IF o.kind = "ok" THEN [exc |-> FALSE, val |-> Some(Strip(o.text))]
    ELSE IF o.kind = "malformed" THEN [exc |-> TRUE, val |-> None]
    ELSE [exc |-> FALSE, val |-> None]

\* ocr_image, the path after Vision answered without an annotation
\* [ret, raised, calls]
FallbackNoText(env, c) ==
    LET v == ocr_with_vertex_gemini(env.vertex)
        o == ocr_with_openai(env.openai)
        c1 == IF c.vertex THEN <<"vertex">> ELSE <<>>
    IN  IF c.vertex /\ ~v.exc /\ Truthy(v.val)
        THEN [ret |-> v.val, raised |-> FALSE, calls |-> c1]
        ELSE IF c.openai
        THEN [ret |-> IF o.exc THEN None ELSE o.val, raised |-> FALSE,
              calls |-> c1 \o <<"openai">>]
        ELSE [ret |-> None, raised |-> FALSE, calls |-> c1]

\* ocr_image, the handler of an exception of the Vision call
MutFallbackOnError(env, c) ==
    LET v == ocr_with_vertex_gemini(env.vertex)
        o == ocr_with_openai(env.openai)
        c1 == IF c.vertex THEN <<"vertex">> ELSE <<>>
    IN  IF c.openai
        THEN [ret |-> IF o.exc THEN (IF c.vertex /\ ~v.exc THEN v.val ELSE None)
                      ELSE o.val,
              raised |-> FALSE, calls |-> c1 \o <<"openai">>]
        ELSE [ret |-> IF c.vertex /\ ~v.exc THEN v.val ELSE None,
              raised |-> FALSE, calls |-> c1]

FallbackOnError(env, c) ==
    LET v == ocr_with_vertex_gemini(env.vertex)
        o == ocr_with_openai(env.openai)
        c1 == IF c.vertex THEN <<"vertex">> ELSE <<>>
    IN  IF c.vertex /\ ~v.exc /\ Truthy(v.val)
        THEN [ret |-> v.val, raised |-> FALSE, calls |-> c1]
        ELSE IF c.openai
        THEN [ret |-> IF o.exc THEN None ELSE o.val, raised |-> FALSE,
              calls |-> c1 \o <<"openai">>]
        ELSE [ret |-> None, raised |-> FALSE, calls |-> c1]

\* an ocr_image that asks the optical tier a second time after it raised
MutOcrImageRetry(env, c) ==
    IF env.vision.kind = "raise"
    THEN LET f == FallbackOnError(env, c)
         IN  [f EXCEPT !.calls = <<"vision", "vision">> \o @]
    ELSE IF env.vision.annots # <<>>
    THEN [ret |-> Some(Strip(env.vision.annots[1])), raised |-> FALSE,
          calls |-> <<"vision">>]
    ELSE LET f == FallbackNoText(env, c)
         IN  [f EXCEPT !.calls = <<"vision">> \o @]

\* ocr_image(image_data, request_id): [ret, raised, calls]
ocr_image(env, c) ==
    IF env.vision.kind = "raise"
    THEN LET f == FallbackOnError(env, c)
         IN  [f EXCEPT !.calls = <<"vision">> \o @]
    ELSE IF env.vision.annots # <<>>
    THEN [ret |-> Some(Strip(env.vision.annots[1])), raised |-> FALSE,
          calls |-> <<"vision">>]
    ELSE LET f == FallbackNoText(env, c)
         IN  [f EXCEPT !.calls = <<"vision">> \o @]

NoOcr == [called |-> FALSE, env |-> [vision |-> [kind |-> "raise", annots |-> <<>>],
                                      vertex |-> [kind |-> "exc", text |-> <<>>],
                                      openai |-> [kind |-> "exc", text |-> <<>>]],
          out |-> [ret |-> None, raised |-> FALSE, calls |-> <<>>]]

OcrRecord(env, c) == [called |-> TRUE, env |-> env, out |-> ocr_image(env, c)]

----------------------------------------------------------------------------
(* Format detection *)

Lower(s) == [i \in 1..Len(s) |-> IF s[i] \in 65..90 THEN s[i] + 32 ELSE s[i]]

\* needle in hay
Contains(hay, needle) ==
    \E i \in 0..(Len(hay) - Len(needle)) :
        SubSeq(hay, i + 1, i + Len(needle)) = needle

\* filename.lower().split('.')[-1] if '.' in filename else ''
Ext(filename) ==
    LET low == Lower(filename)
        dots == {i \in 1..Len(low) : low[i] = 46}
    IN  IF dots = {} THEN <<>> ELSE SubSeq(low, Max(dots) + 1, Len(low))

S_pdf == <<112, 100, 102>>
S_pptx == <<112, 112, 116, 120>>
S_ppt == <<112, 112, 116>>
S_docx == <<100, 111, 99, 120>>
S_doc == <<100, 111, 99>>
S_txt == <<116, 120, 116>>
S_presentation == <<112, 114, 101, 115, 101, 110, 116, 97, 116, 105, 111, 110>>
S_powerpoint == <<112, 111, 119, 101, 114, 112, 111, 105, 110, 116>>
S_word == <<119, 111, 114, 100>>
S_document == <<100, 111, 99, 117, 109, 101, 110, 116>>
S_text_plain == <<116, 101, 120, 116, 47, 112, 108, 97, 105, 110>>
ImageExts == {<<112, 110, 103>>, <<106, 112, 103>>, <<106, 112, 101, 103>>,
              <<119, 101, 98, 112>>, <<103, 105, 102>>}

\* detect_file_type(filename, mimetype)
detect_file_type(filename, mimetype) ==
    LET ext == Ext(filename)
    IN  IF ext = S_pdf \/ Contains(mimetype, S_pdf) THEN "pdf"
        ELSE IF ext \in {S_pptx, S_ppt} \/ Contains(mimetype, S_presentation)
                \/ Contains(mimetype, S_powerpoint) THEN "pptx"
        ELSE IF ext \in {S_docx, S_doc} \/ Contains(mimetype, S_word)
                \/ Contains(mimetype, S_document) THEN "docx"
        ELSE IF ext = S_txt \/ Contains(mimetype, S_text_plain) THEN "txt"
        ELSE IF ext \in ImageExts THEN "image"
        ELSE "unknown"

----------------------------------------------------------------------------
(* TXT extraction *)

\* bytes.decode('utf-8'): [ok, text]
RECURSIVE Utf8Decode(_)
Utf8Decode(b) ==
    IF b = <<>> THEN [ok |-> TRUE, text |-> <<>>]
    ELSE
    LET n == Len(b)
        Cont(x) == x \in 128..191
        Rest(k) == Utf8Decode(SubSeq(b, k + 1, n))
        Put(cp, k) == IF Rest(k).ok
                      THEN [ok |-> TRUE, text |-> <<cp>> \o Rest(k).text]
                      ELSE [ok |-> FALSE, text |-> <<>>]
    IN  IF b[1] < 128 THEN Put(b[1], 1)
        ELSE IF b[1] \in 194..223 /\ n >= 2 /\ Cont(b[2])
        THEN Put((b[1] - 192) * 64 + (b[2] - 128), 2)
        ELSE IF b[1] \in 224..239 /\ n >= 3 /\ Cont(b[2]) /\ Cont(b[3])
                /\ (b[1] = 224 => b[2] >= 160) /\ (b[1] = 237 => b[2] <= 159)
        THEN Put((b[1] - 224) * 4096 + (b[2] - 128) * 64 + (b[3] - 128), 3)
        ELSE IF b[1] \in 240..244 /\ n >= 4 /\ Cont(b[2]) /\ Cont(b[3]) /\ Cont(b[4])
                /\ (b[1] = 240 => b[2] >= 144) /\ (b[1] = 244 => b[2] <= 143)
        THEN Put((b[1] - 240) * 262144 + (b[2] - 128) * 4096
                 + (b[3] - 128) * 64 + (b[4] - 128), 4)
        ELSE [ok |-> FALSE, text |-> <<>>]

\* bytes.decode('latin-1'): every byte is its own code point
Latin1Decode(b) == [ok |-> TRUE, text |-> [i \in 1..Len(b) |-> b[i]]]

\* code points of the bytes 0x80..0x9F in cp1252; 0 where the byte is undefined
Cp1252High ==
    <<8364, 0, 8218, 402, 8222, 8230, 8224, 8225, 710, 8240, 352, 8249, 338, 0, 381, 0,
      0, 8216, 8217, 8220, 8221, 8226, 8211, 8212, 732, 8482, 353, 8250, 339, 0, 382, 376>>

\* bytes.decode('cp1252')
Cp1252Decode(b) ==
    LET cp(x) == IF x \in 128..159 THEN Cp1252High[x - 127] ELSE x
    IN  IF \E i \in 1..Len(b) : cp(b[i]) = 0
        THEN [ok |-> FALSE, text |-> <<>>]
        ELSE [ok |-> TRUE, text |-> [i \in 1..Len(b) |-> cp(b[i])]]

Decode(encoding, b) ==
    CASE encoding = "utf-8" -> Utf8Decode(b)
      [] encoding = "latin-1" -> Latin1Decode(b)
      [] encoding = "cp1252" -> Cp1252Decode(b)

\* bytes.decode('utf-8', errors='ignore'): undecodable bytes are dropped
RECURSIVE Utf8DecodeIgnore(_)
Utf8DecodeIgnore(b) ==
    IF b = <<>> THEN <<>>
    ELSE LET ks == {k \in 1..Len(b) : k <= 4 /\ Utf8Decode(SubSeq(b, 1, k)).ok}
         IN  IF ks = {} THEN Utf8DecodeIgnore(Tail(b))
             ELSE Utf8Decode(SubSeq(b, 1, Min(ks))).text
                  \o Utf8DecodeIgnore(SubSeq(b, Min(ks) + 1, Len(b)))

\* the loop over the encodings: the first decoding that does not raise
RECURSIVE FirstDecoded(_, _)
FirstDecoded(encodings, b) ==
    IF encodings = <<>> THEN None
    ELSE IF Decode(encodings[1], b).ok THEN Some(Decode(encodings[1], b).text)
    ELSE FirstDecoded(Tail(encodings), b)

MutExtractTxt(b) ==
    LET d == FirstDecoded(<<"latin-1", "utf-8", "cp1252">>, b)
        text == IF ~Truthy(d) THEN Utf8DecodeIgnore(b) ELSE d.text
    IN  [method |-> "direct_read", confidence |-> Pct(100),
         text_blocks |-> <<[text |-> text, page |-> 1, confidence |-> Pct(100),
                            type |-> "text"]>>,
         tables |-> <<>>, images |-> <<>>, page_count |-> 1, raw_text |-> text]

\* extract_txt(file_buffer, request_id)
extract_txt(b) ==
    LET d == FirstDecoded(<<"utf-8", "latin-1", "cp1252">>, b)
        text == IF ~Truthy(d) THEN Utf8DecodeIgnore(b) ELSE d.text
    IN  [method |-> "direct_read", confidence |-> Pct(100),
         text_blocks |-> <<[text |-> text, page |-> 1, confidence |-> Pct(100),
                            type |-> "text"]>>,
         tables |-> <<>>, images |-> <<>>, page_count |-> 1, raw_text |-> text]

----------------------------------------------------------------------------
(* Canonical model *)

\* len(full_text.split())
WordCount(s) ==
    Cardinality({i \in 1..Len(s) : ~IsSpace(s[i]) /\ (i = 1 \/ IsSpace(s[i - 1]))})

\* a canonical model that rebuilds the full text from the blocks
MutBuildCanonicalModelJoin(res, filename, ftype, file_size, request_id, now) ==
    LET full_text == JoinBlocks(res.text_blocks)
    IN  [id |-> request_id, filename |-> filename, file_type |-> ftype,
         file_size |-> file_size,
         extraction |-> [method |-> res.method, confidence |-> res.confidence,
                         timestamp |-> now],
         structure |-> [page_count |-> res.page_count, tables |-> res.tables,
                        images |-> res.images],
         content |-> [text_blocks |-> res.text_blocks, full_text |-> full_text],
         stats |-> [total_chars |-> Len(full_text),
                    total_words |-> WordCount(full_text),
                    total_blocks |-> Len(res.text_blocks),
                    total_tables |-> Len(res.tables),
                    total_images |-> Len(res.images)]]

\* a canonical model whose id is derived from the clock
MutBuildCanonicalModelClock(res, filename, ftype, file_size, request_id, now) ==
    [id |-> request_id + now, filename |-> filename, file_type |-> ftype,
     file_size |-> file_size,
     extraction |-> [method |-> res.method, confidence |-> res.confidence,
                     timestamp |-> now],
     structure |-> [page_count |-> res.page_count, tables |-> res.tables,
                    images |-> res.images],
     content |-> [text_blocks |-> res.text_blocks, full_text |-> res.raw_text],
     stats |-> [total_chars |-> Len(res.raw_text),
                total_words |-> WordCount(res.raw_text),
                total_blocks |-> Len(res.text_blocks),
                total_tables |-> Len(res.tables),
                total_images |-> Len(res.images)]]

MutBuildCanonicalModel(res, filename, ftype, file_size, request_id, now) ==
    [id |-> request_id, filename |-> filename, file_type |-> ftype,
     file_size |-> file_size,
     extraction |-> [method |-> res.method, confidence |-> res.confidence,
                     timestamp |-> now],
     structure |-> [page_count |-> res.page_count, tables |-> res.tables,
                    images |-> res.images],
     content |-> [text_blocks |-> res.text_blocks, full_text |-> res.raw_text],
     stats |-> [total_chars |-> Len(JoinBlocks(res.text_blocks)),
                total_words |-> WordCount(res.raw_text),
                total_blocks |-> Len(res.text_blocks) + Len(res.tables),
                total_tables |-> Len(res.tables),
                total_images |-> Len(res.images)]]

\* build_canonical_model(result, filename, file_type, file_size, request_id)
\* now: what time.strftime returns
build_canonical_model(res, filename, ftype, file_size, request_id, now) ==
    LET blocks == res.text_blocks
        full_text == res.raw_text
    IN  [id |-> request_id, filename |-> filename, file_type |-> ftype,
         file_size |-> file_size,
         extraction |-> [method |-> res.method, confidence |-> res.confidence,
                         timestamp |-> now],
         structure |-> [page_count |-> res.page_count, tables |-> res.tables,
                        images |-> res.images],
         content |-> [text_blocks |-> blocks, full_text |-> full_text],
         stats |-> [total_chars |-> Len(full_text),
                    total_words |-> WordCount(full_text),
                    total_blocks |-> Len(blocks),
                    total_tables |-> Len(res.tables),
                    total_images |-> Len(res.images)]]

----------------------------------------------------------------------------
(* PDF, stage 1: the structured-extraction service (Document AI) *)

RECURSIVE Flatten(_)
Flatten(ss) == IF ss = <<>> THEN <<>> ELSE ss[1] \o Flatten(Tail(ss))

RECURSIVE SumConf(_)
SumConf(blocks) ==
    IF blocks = <<>> THEN 0 ELSE blocks[1].confidence.n + SumConf(Tail(blocks))

\* get_text_from_layout(layout, full_text); segs is layout.text_anchor.text_segments
get_text_from_layout(segs, full_text) ==
    Strip(Flatten([i \in 1..Len(segs) |-> Slice(full_text, segs[i][1], segs[i][2])]))

\* replies of client.process_document: an exception, or a document
\* [text, pages], a page being [page_number, paragraphs, tables], a paragraph
\* [segs, conf] (conf in percent, 0 when the service reports none) and a
\* table a list of rows of cells, each cell a list of segments
DA_ab_cd == <<97, 98, 10, 99, 100, 10>>
DocAiDocuments ==
    { [text |-> DA_ab_cd,
       pages |-> << [page_number |-> 1,
                     paragraphs |-> << [segs |-> << <<0, 3>> >>, conf |-> 95],
                                       [segs |-> << <<3, 6>> >>, conf |-> 95] >>,
                     tables |-> <<>>] >>],
      [text |-> DA_ab_cd,
       pages |-> << [page_number |-> 1,
                     paragraphs |-> << [segs |-> << <<0, 2>> >>, conf |-> 90],
                                       [segs |-> << <<3, 5>> >>, conf |-> 50] >>,
                     tables |-> <<>>] >>],
      [text |-> DA_ab_cd,
       pages |-> << [page_number |-> 1,
                     paragraphs |-> << [segs |-> << <<0, 2>> >>, conf |-> 50] >>,
                     tables |-> <<>>] >>],
      [text |-> DA_ab_cd,
       pages |-> << [page_number |-> 1,
                     paragraphs |-> << [segs |-> << <<0, 2>> >>, conf |-> 0] >>,
                     tables |-> << << << << <<0, 1>> >>, << <<1, 2>> >> >>,
                                      << << <<3, 4>> >>, << <<4, 5>> >> >> >> >>] >>],
      [text |-> <<>>, pages |-> <<>>] }

DocAiReplies ==
    {[kind |-> "raise", document |-> [text |-> <<>>, pages |-> <<>>]]}
    \cup {[kind |-> "ok", document |-> d] : d \in DocAiDocuments}

DocAiParagraphBlocks(page, full_text) ==
    [i \in 1..Len(page.paragraphs) |->
        [text |-> get_text_from_layout(page.paragraphs[i].segs, full_text),
         page |-> page.page_number,
         confidence |-> IF page.paragraphs[i].conf # 0
                        THEN Pct(page.paragraphs[i].conf) ELSE Pct(90),
         type |-> "paragraph"]]

DocAiTables(page, full_text) ==
    [i \in 1..Len(page.tables) |->
        [rows |-> [r \in 1..Len(page.tables[i]) |->
                     [k \in 1..Len(page.tables[i][r]) |->
                        get_text_from_layout(page.tables[i][r][k], full_text)]],
         page |-> page.page_number,
         confidence |-> Pct(90)]]

\* extract_pdf_with_document_ai(file_buffer, request_id): [exc, val]
extract_pdf_with_document_ai(reply) ==
    LET document == reply.document
        blocks == Flatten([i \in 1..Len(document.pages) |->
                             DocAiParagraphBlocks(document.pages[i], document.text)])
        tabs == Flatten([i \in 1..Len(document.pages) |->
                             DocAiTables(document.pages[i], document.text)])
        avg_confidence == IF blocks # <<>>
                          THEN Q(SumConf(blocks), 100 * Len(blocks)) ELSE Pct(90)
    IN  IF reply.kind = "raise"
        THEN [exc |-> TRUE, val |-> <<>>]
        ELSE [exc |-> FALSE,
              val |-> [method |-> "document_ai", confidence |-> avg_confidence,
                       text_blocks |-> blocks, tables |-> tabs, images |-> <<>>,
                       page_count |-> Len(document.pages),
                       raw_text |-> document.text]]

----------------------------------------------------------------------------
(* Inputs *)

\* A PDF page as PyMuPDF shows it: text is page.get_text("text") (text_ok:
\* the call does not raise), images are the embedded images (pix_ok: the
\* pixmap can be built), thumb_ok: the thumbnail renders, raster_ok: the
\* 2x rasterization of stage 3 does not raise.
Page(text, imgs, thumb_ok, raster_ok, text_ok) ==
    [text |-> text, images |-> imgs, thumb_ok |-> thumb_ok,
     raster_ok |-> raster_ok, text_ok |-> text_ok]

PdfPageSamples ==
    { Page(<<>>, <<>>, TRUE, TRUE, TRUE),
      Page(<<>>, <<>>, FALSE, TRUE, TRUE),
      Page(TBlank, <<[pix_ok |-> FALSE], [pix_ok |-> TRUE]>>, TRUE, TRUE, TRUE),
      Page(Rep(97, 49) \o <<10>>, <<>>, TRUE, TRUE, TRUE),
      Page(Rep(97, 100) \o <<10>>, <<[pix_ok |-> TRUE]>>, TRUE, TRUE, TRUE),
      Page(<<>>, <<>>, TRUE, TRUE, FALSE),
      Page(<<>>, <<>>, TRUE, FALSE, TRUE) }

SeqsUpTo(S, n) == UNION {[1..k -> S] : k \in 0..n}

\* every document of up to two pages; a longer document repeats its last page
PdfFiles ==
    {[kind |-> "pdf", bytes |-> <<37, 80, 68, 70>>, doc |-> [pages |-> ps]] :
        ps \in {q \in SeqsUpTo(PdfPageSamples, MaxPages) :
                  \A i \in 3..Len(q) : q[i] = q[i - 1]}}

\* a file no container reader can open
CorruptFile == [kind |-> "corrupt", bytes |-> <<255, 0>>, doc |-> [pages |-> <<>>]]

ByteSamples == {65, 32, 195, 169, 233, 128}

TxtFiles ==
    {[kind |-> "txt", bytes |-> b, doc |-> [pages |-> <<>>]] :
        b \in SeqsUpTo(ByteSamples, MaxBytes)}

\* what the recognition services answer inside an extraction
OcrEnvsDoc ==
    { [vision |-> [kind |-> "ok", annots |-> <<TLong>>],
       vertex |-> [kind |-> "exc", text |-> <<>>],
       openai |-> [kind |-> "exc", text |-> <<>>]],
      [vision |-> [kind |-> "ok", annots |-> <<TBlank>>],
       vertex |-> [kind |-> "ok", text |-> TInvoice],
       openai |-> [kind |-> "ok", text |-> TInvoice]],
      [vision |-> [kind |-> "raise", annots |-> <<>>],
       vertex |-> [kind |-> "ok", text |-> TInvoice],
       openai |-> [kind |-> "ok", text |-> TLong]],
      [vision |-> [kind |-> "ok", annots |-> <<>>],
       vertex |-> [kind |-> "exc", text |-> <<>>],
       openai |-> [kind |-> "malformed", text |-> <<>>]] }

\* what they answer for an image of a PPTX or DOCX: also a text of exactly
\* 20 characters and a second text of more than 20
T20 == Rep(98, 20)
T22 == Rep(99, 22)
OcrEnvsOffice ==
    OcrEnvsDoc
    \cup { [vision |-> [kind |-> "ok", annots |-> <<t>>],
            vertex |-> [kind |-> "exc", text |-> <<>>],
            openai |-> [kind |-> "exc", text |-> <<>>]] : t \in {T20, T22} }

\* A DOCX as python-docx shows it: paragraphs [text, style] (style is
\* para.style.name), tables as rows of cell texts, and the relationships of
\* the document part (is_image: "image" in rel.target_ref, blob_ok: the
\* target part can be read).
S_Heading == <<72, 101, 97, 100, 105, 110, 103>>
S_Heading1 == <<72, 101, 97, 100, 105, 110, 103, 32, 49>>
S_heading1 == <<104, 101, 97, 100, 105, 110, 103, 32, 49>>
S_Normal == <<78, 111, 114, 109, 97, 108>>
S_Title == <<84, 105, 116, 108, 101>>
S_Introduction == <<73, 110, 116, 114, 111, 100, 117, 99, 116, 105, 111, 110>>
S_HelloWorld == <<72, 101, 108, 108, 111, 32, 119, 111, 114, 108, 100>>

ParaIntro == [text |-> S_Introduction, style |-> S_Heading1]
ParaHello == [text |-> S_HelloWorld, style |-> S_Normal]

ParaSamples ==
    { ParaIntro, ParaHello,
      [text |-> TBlank, style |-> S_Normal],
      [text |-> <<32>> \o S_Title \o <<10>>, style |-> S_Title],
      [text |-> <<120>>, style |-> S_heading1] }

TableAbcd == << << <<32, 97>>, <<98>> >>, << <<99>>, <<100, 32>> >> >>
TableBlank == << << <<>>, <<32>> >> >>
TableLong == << << Rep(97, 50) >> >>

TableSeqs == { <<>>, <<TableAbcd>>, <<TableBlank, TableAbcd>> }

RelSeqs ==
    { <<>>,
      <<[is_image |-> TRUE, blob_ok |-> TRUE]>>,
      <<[is_image |-> FALSE, blob_ok |-> TRUE], [is_image |-> TRUE, blob_ok |-> FALSE],
        [is_image |-> TRUE, blob_ok |-> TRUE]>>,
      <<[is_image |-> TRUE, blob_ok |-> TRUE], [is_image |-> TRUE, blob_ok |-> TRUE]>> }

DocxFiles ==
    {[kind |-> "docx", bytes |-> <<80, 75, 3, 4>>,
      doc |-> [paragraphs |-> ps, tables |-> <<>>, rels |-> <<>>]] :
        ps \in SeqsUpTo(ParaSamples, MaxParas)}
    \cup
    {[kind |-> "docx", bytes |-> <<80, 75, 3, 4>>,
      doc |-> [paragraphs |-> ps, tables |-> ts, rels |-> rs]] :
        ps \in {<<>>, <<ParaIntro, ParaHello>>}, ts \in TableSeqs, rs \in RelSeqs}

\* A PPTX as python-pptx shows it: slides [shapes, notes]; a shape has a
\* text frame with paragraphs, a table (rows of cell texts) and/or an image.
Shape(tf, paras, tb, rows, im, blob_ok) ==
    [has_text_frame |-> tf, paragraphs |-> paras, has_table |-> tb, rows |-> rows,
     has_image |-> im, blob_ok |-> blob_ok]

TextShape(paras) == Shape(TRUE, paras, FALSE, <<>>, FALSE, TRUE)
TableShape(rows) == Shape(FALSE, <<>>, TRUE, rows, FALSE, TRUE)
ImageShape(blob_ok) == Shape(FALSE, <<>>, FALSE, <<>>, TRUE, blob_ok)

SlideSamples ==
    { [shapes |-> <<TextShape(<< <<32>> \o S_Title \o <<32>>, <<>> >>)>>,
       notes |-> Some(<<110, 111, 116, 101>>)],
      [shapes |-> <<ImageShape(TRUE)>>, notes |-> None],
      [shapes |-> <<TextShape(<<Rep(97, 50)>>), ImageShape(TRUE)>>, notes |-> Some(TBlank)],
      [shapes |-> <<TableShape(TableAbcd), ImageShape(FALSE), ImageShape(TRUE)>>,
       notes |-> None],
      [shapes |-> <<TableShape(TableLong), ImageShape(TRUE)>>, notes |-> None] }

\* every deck of up to two slides; a longer deck repeats its last slide
PptxFiles ==
    {[kind |-> "pptx", bytes |-> <<80, 75, 3, 4, 0>>, doc |-> [slides |-> ss]] :
        ss \in {q \in SeqsUpTo(SlideSamples, MaxSlides) :
                  \A i \in 3..Len(q) : q[i] = q[i - 1]}}

\* file names and content types
FN_a_pdf == <<97, 46, 112, 100, 102>>
FN_A_PDF == <<65, 46, 80, 68, 70>>
FN_a_pptx == <<97, 46, 112, 112, 116, 120>>
FN_a_docx == <<97, 46, 100, 111, 99, 120>>
FN_a_txt == <<97, 46, 116, 120, 116>>
FN_a_png == <<97, 46, 112, 110, 103>>
FN_a_bin == <<97, 46, 98, 105, 110>>
FN_document == <<100, 111, 99, 117, 109, 101, 110, 116>>
MT_pdf == <<97, 112, 112, 108, 105, 99, 97, 116, 105, 111, 110, 47, 112, 100, 102>>
MT_octet == <<97, 112, 112, 108, 105, 99, 97, 116, 105, 111, 110, 47, 111, 99, 116,
              101, 116, 45, 115, 116, 114, 101, 97, 109>>
MT_msword == <<97, 112, 112, 108, 105, 99, 97, 116, 105, 111, 110, 47, 109, 115,
               119, 111, 114, 100>>
MT_text == <<116, 101, 120, 116, 47, 112, 108, 97, 105, 110>>

\* the name a file of each kind is usually sent under
NameOf(kind) ==
    CASE kind = "pdf" -> [filename |-> FN_a_pdf, mimetype |-> MT_pdf]
      [] kind = "pptx" -> [filename |-> FN_a_pptx, mimetype |-> <<>>]
      [] kind = "docx" -> [filename |-> FN_a_docx, mimetype |-> MT_msword]
      [] kind = "txt" -> [filename |-> FN_a_txt, mimetype |-> MT_text]

Names ==
    [filename : {FN_a_pdf, FN_A_PDF, FN_a_pptx, FN_a_docx, FN_a_txt, FN_a_png,
                 FN_a_bin, FN_document},
     mimetype : {<<>>, MT_pdf, MT_octet, MT_msword, MT_text}]

Upload(name, file) ==
    [source |-> "upload", filename |-> name.filename, mimetype |-> name.mimetype,
     file |-> file]

\* the requests: every file under its usual name, a corrupt file and a small
\* text file under every name, a request without a file, and a signed URL
\* whose download fails
Requests ==
    {Upload(NameOf(f.kind), f) : f \in PdfFiles \cup PptxFiles \cup DocxFiles \cup TxtFiles}
    \cup {Upload(n, f) : n \in Names,
                         f \in {CorruptFile,
                                [kind |-> "txt", bytes |-> <<65, 233>>,
                                 doc |-> [pages |-> <<>>]]}}
    \cup {[source |-> s, filename |-> FN_document, mimetype |-> <<>>,
           file |-> CorruptFile] : s \in {"none", "url_error"}}

RequestIds == {1, 2}
Timestamps == {1, 2}

----------------------------------------------------------------------------
(* State *)

NoCalls == [docai |-> 0, fitz_open |-> 0, stage3 |-> 0, render |-> 0, ocr |-> 0,
            pdf |-> 0, pptx |-> 0, docx |-> 0, txt |-> 0, build |-> 0]

Called(f) == [calls EXCEPT ![f] = @ + 1]

NoResult == [method |-> "none", confidence |-> Pct(0), text_blocks |-> <<>>,
             tables |-> <<>>, images |-> <<>>, page_count |-> 0, raw_text |-> <<>>]

NoResponse == [status |-> 0, kind |-> "none"]

NoDocAi == [called |-> FALSE, exc |-> FALSE, val |-> NoResult]

\* MAX_PAGE_THUMBNAILS = int(os.environ.get('MAX_PAGE_THUMBNAILS', '25'))
MAX_PAGE_THUMBNAILS == 25

Configs == [processor : BOOLEAN, vertex : BOOLEAN, openai : BOOLEAN,
            max_thumbs : {MAX_PAGE_THUMBNAILS}]

\* a request handler that has not received its request yet
IdleRequest ==
    [pc |-> "idle",
     input |-> [source |-> "none", filename |-> <<>>, mimetype |-> <<>>,
                file |-> CorruptFile, request_id |-> 0],
     file_type |-> "none", text_blocks |-> <<>>, tables |-> <<>>, images |-> <<>>,
     raw_text |-> <<>>, method |-> "none", confidence |-> Pct(0), page_count |-> 0,
     thumbnails_added |-> 0, page_num |-> 0, img_index |-> 0, slide_texts |-> <<>>,
     da_result |-> NoDocAi, result |-> NoResult, response |-> NoResponse,
     calls |-> NoCalls, lastOcr |-> NoOcr]

\* module import: the configuration is read from the environment
\*   processor: DOCUMENT_AI_PROCESSOR_ID is not empty
\*   vertex:    VERTEX_GEMINI_OCR_ENABLED
\*   openai:    OPENAI_API_KEY is not empty
\*   max_thumbs: MAX_PAGE_THUMBNAILS
Init ==
    /\ cfg \in Configs
    /\ pc = "idle"
    /\ input = [source |-> "none", filename |-> <<>>, mimetype |-> <<>>,
                file |-> CorruptFile, request_id |-> 0]
    /\ file_type = "none"
    /\ text_blocks = <<>>
    /\ tables = <<>>
    /\ images = <<>>
    /\ raw_text = <<>>
    /\ method = "none"
    /\ confidence = Pct(0)
    /\ page_count = 0
    /\ thumbnails_added = 0
    /\ page_num = 0
    /\ img_index = 0
    /\ slide_texts = <<>>
    /\ da_result = NoDocAi
    /\ result = NoResult
    /\ response = NoResponse
    /\ calls = NoCalls
    /\ lastOcr = NoOcr
    /\ other = IdleRequest

locals == <<text_blocks, tables, images, raw_text, method, confidence, page_count,
            thumbnails_added, page_num, img_index, slide_texts, da_result>>

\* the locals an extractor starts with
ResetLocals ==
    /\ text_blocks' = <<>>
    /\ tables' = <<>>
    /\ images' = <<>>
    /\ raw_text' = <<>>
    /\ method' = "unknown"
    /\ confidence' = Pct(0)
    /\ page_count' = 1
    /\ thumbnails_added' = 0
    /\ page_num' = 0
    /\ img_index' = 0
    /\ slide_texts' = <<>>
    /\ da_result' = NoDocAi

----------------------------------------------------------------------------
(* The /extract handler *)

\* extract(), up to the file type detection: the request id is minted and
\* the file is read from the upload or downloaded from the signed URL
ReceiveFrom(requests) ==
    /\ pc = "idle"
    /\ \E req \in requests, id \in RequestIds :
        /\ input' = [source |-> req.source, filename |-> req.filename,
                     mimetype |-> req.mimetype, file |-> req.file, request_id |-> id]
        /\ CASE req.source = "none" ->
                  /\ response' = [status |-> 400, kind |-> "no_file"]
                  /\ pc' = "done"
             [] req.source = "url_error" ->
                  /\ response' = [status |-> 500, kind |-> "error", requestId |-> id]
                  /\ pc' = "done"
             [] OTHER ->
                  /\ response' = response
                  /\ pc' = "detect"
    /\ UNCHANGED <<cfg, other, file_type, locals, result, calls, lastOcr>>

Receive == ReceiveFrom(Requests)

\* extract(): the extractor for a file type, "none" when it is unsupported
MutExtractorFor(t) ==
    CASE t = "pdf" -> "pdf"
      [] t \in {"pptx", "ppt"} -> "pptx"
      [] t \in {"docx", "doc"} -> "docx"
      [] t \in {"txt", "unknown"} -> "txt"
      [] OTHER -> "none"

ExtractorFor(t) ==
    CASE t = "pdf" -> "pdf"
      [] t \in {"pptx", "ppt"} -> "pptx"
      [] t \in {"docx", "doc"} -> "docx"
      [] t = "txt" -> "txt"
      [] OTHER -> "none"

\* extract(): detect the file type and call the extractor for it
Dispatch ==
    /\ pc = "detect"
    /\ LET t == detect_file_type(input.filename, input.mimetype)
           x == ExtractorFor(t)
       IN  /\ file_type' = t
           /\ CASE x = "pdf" ->
                     /\ pc' = "pdf_stage1" /\ calls' = Called("pdf")
                     /\ ResetLocals /\ response' = response
                [] x = "pptx" ->
                     /\ pc' = "pptx_open" /\ calls' = Called("pptx")
                     /\ ResetLocals /\ response' = response
                [] x = "docx" ->
                     /\ pc' = "docx_open" /\ calls' = Called("docx")
                     /\ ResetLocals /\ response' = response
                [] x = "txt" ->
                     /\ pc' = "txt" /\ calls' = Called("txt")
                     /\ UNCHANGED locals /\ response' = response
                [] OTHER ->
                     /\ response' = [status |-> 400, kind |-> "unsupported",
                                     file_type |-> t]
                     /\ pc' = "done"
                     /\ UNCHANGED <<locals, calls>>
    /\ UNCHANGED <<cfg, other, input, result, lastOcr>>

\* extract_txt
ExtractTxt ==
    /\ pc = "txt"
    /\ result' = extract_txt(input.file.bytes)
    /\ pc' = "extracted"
    /\ UNCHANGED <<cfg, other, input, file_type, locals, response, calls, lastOcr>>

\* extract(): build the canonical model and answer
BuildCanonical ==
    /\ pc = "extracted"
    /\ \E now \in Timestamps :
        response' = [status |-> 200, kind |-> "success",
                     requestId |-> input.request_id,
                     canonical |-> build_canonical_model(result, input.filename,
                                      file_type, Len(input.file.bytes),
                                      input.request_id, now),
                     extractionMethod |-> result.method,
                     confidence |-> result.confidence]
    /\ calls' = Called("build")
    /\ pc' = "done"
    /\ UNCHANGED <<cfg, other, input, file_type, locals, result, lastOcr>>

\* extract(): the handler of an exception an extractor let through
HandleException ==
    /\ pc = "raised"
    /\ response' = [status |-> 500, kind |-> "error", requestId |-> input.request_id]
    /\ pc' = "done"
    /\ UNCHANGED <<cfg, other, input, file_type, locals, result, calls, lastOcr>>

----------------------------------------------------------------------------
(* extract_pdf *)

Pages == input.file.doc.pages
CurPage == Pages[page_num + 1]

Block(text, page, conf, type) ==
    [text |-> text, page |-> page, confidence |-> Pct(conf), type |-> type]

\* a gate that accepts every Document AI result, whatever its confidence
MutStage1AcceptsAny(r) == ~r.exc

\* the confidence gate of stage 1: `if result and result.get('confidence', 0) >= 0.7`
MutStage1Accepts(r) == ~r.exc /\ ~QGe(Pct(70), r.val.confidence)

Stage1Accepts(r) == ~r.exc /\ QGe(r.val.confidence, Pct(70))

\* stage 1: Document AI, when a processor is configured
PdfStage1 ==
    /\ pc = "pdf_stage1"
    /\ IF cfg.processor
       THEN \E reply \in DocAiReplies :
              LET r == extract_pdf_with_document_ai(
                          IF input.file.kind = "pdf" THEN reply
                          ELSE [reply EXCEPT !.kind = "raise"])
              IN  /\ calls' = Called("docai")
                  /\ da_result' = [called |-> TRUE, exc |-> r.exc,
                                    val |-> IF r.exc THEN NoResult ELSE r.val]
                  /\ IF Stage1Accepts(r)
                     THEN /\ result' = r.val
                          /\ pc' = "extracted"
                     ELSE /\ result' = result
                          /\ pc' = "pdf_open"
       ELSE /\ pc' = "pdf_open"
            /\ UNCHANGED <<da_result, result, calls>>
    /\ UNCHANGED <<cfg, other, input, file_type, text_blocks, tables, images, raw_text,
                   method, confidence, page_count, thumbnails_added, page_num,
                   img_index, slide_texts, response, lastOcr>>

\* stage 2: fitz.open
PdfOpen ==
    /\ pc = "pdf_open"
    /\ calls' = Called("fitz_open")
    /\ IF input.file.kind = "pdf"
       THEN /\ page_count' = IF Len(Pages) # 0 THEN Len(Pages) ELSE 1
            /\ thumbnails_added' = 0
            /\ page_num' = 0
            /\ pc' = IF Len(Pages) = 0 THEN "pdf_join" ELSE "pdf_page"
       ELSE /\ pc' = "pdf_return"
            /\ UNCHANGED <<page_count, thumbnails_added, page_num>>
    /\ UNCHANGED <<cfg, other, input, file_type, text_blocks, tables, images, raw_text,
                   method, confidence, img_index, slide_texts, da_result, result, response,
                   lastOcr>>

\* stage 2, one page: the text layer
PdfPageText ==
    /\ pc = "pdf_page"
    /\ IF ~CurPage.text_ok
       THEN /\ pc' = "pdf_return"
            /\ UNCHANGED <<text_blocks, img_index>>
       ELSE LET page_text == CurPage.text
            IN  /\ text_blocks' = IF Strip(page_text) # <<>>
                                  THEN Append(text_blocks,
                                         Block(Strip(page_text), page_num + 1, 85,
                                               "paragraph"))
                                  ELSE text_blocks
                /\ img_index' = 0
                /\ pc' = IF Len(Strip(page_text)) < 100 /\ CurPage.images # <<>>
                         THEN "pdf_image" ELSE "pdf_thumb"
    /\ UNCHANGED <<cfg, other, input, file_type, tables, images, raw_text, method,
                   confidence, page_count, thumbnails_added, page_num, slide_texts,
                   da_result, result, response, calls, lastOcr>>

\* an image loop that gives up the page at the first image it cannot decode
MutPdfImage ==
    /\ pc = "pdf_image"
    /\ IF ~CurPage.images[img_index + 1].pix_ok
       THEN /\ pc' = "pdf_thumb"
            /\ UNCHANGED <<text_blocks, calls, lastOcr>>
       ELSE /\ pc' = IF img_index + 1 < Len(CurPage.images)
                     THEN "pdf_image" ELSE "pdf_thumb"
            /\ \E env \in OcrEnvsDoc :
                 LET o == ocr_image(env, cfg)
                 IN  /\ lastOcr' = OcrRecord(env, cfg)
                     /\ calls' = Called("ocr")
                     /\ text_blocks' = IF ~o.raised /\ Truthy(o.ret)
                                       THEN Append(text_blocks,
                                              Block(o.ret.text, page_num + 1, 70, "ocr"))
                                       ELSE text_blocks
    /\ img_index' = img_index + 1
    /\ UNCHANGED <<cfg, other, input, file_type, tables, images, raw_text, method,
                   confidence, page_count, thumbnails_added, page_num, slide_texts,
                   da_result, result, response>>

\* stage 2, one embedded image of a sparse page
PdfImage ==
    /\ pc = "pdf_image"
    /\ IF ~CurPage.images[img_index + 1].pix_ok
       THEN UNCHANGED <<text_blocks, calls, lastOcr>>
       ELSE \E env \in OcrEnvsDoc :
              LET o == ocr_image(env, cfg)
              IN  /\ lastOcr' = OcrRecord(env, cfg)
                  /\ calls' = Called("ocr")
                  /\ text_blocks' = IF ~o.raised /\ Truthy(o.ret)
                                    THEN Append(text_blocks,
                                           Block(o.ret.text, page_num + 1, 70, "ocr"))
                                    ELSE text_blocks
    /\ img_index' = img_index + 1
    /\ pc' = IF img_index + 1 < Len(CurPage.images) THEN "pdf_image" ELSE "pdf_thumb"
    /\ UNCHANGED <<cfg, other, input, file_type, tables, images, raw_text, method,
                   confidence, page_count, thumbnails_added, page_num, slide_texts,
                   da_result, result, response>>

\* _render_page_thumbnail_data_url(page, request_id)
S_data_url == <<100, 97, 116, 97, 58, 105, 109, 97, 103, 101, 47, 106, 112, 101, 103,
                59, 98, 97, 115, 101, 54, 52, 44>>
render_page_thumbnail_data_url(page) ==
    IF page.thumb_ok THEN Some(S_data_url \o <<65>>) ELSE None

\* a page loop whose cap test lets one thumbnail too many through
MutPdfThumb ==
    /\ pc = "pdf_thumb"
    /\ LET has_page_text ==
               \E i \in 1..Len(text_blocks) :
                   /\ text_blocks[i].page = page_num + 1
                   /\ Len(Strip(text_blocks[i].text)) >= 20
           data_url == render_page_thumbnail_data_url(CurPage)
       IN  IF thumbnails_added <= cfg.max_thumbs /\ ~has_page_text
           THEN /\ calls' = Called("render")
                /\ IF Truthy(data_url)
                   THEN /\ images' = Append(images,
                                       [page |-> page_num + 1, type |-> "page_thumbnail",
                                        data_url |-> data_url.text,
                                        caption |-> "Page thumbnail (no text extracted)"])
                        /\ thumbnails_added' = thumbnails_added + 1
                   ELSE UNCHANGED <<images, thumbnails_added>>
           ELSE UNCHANGED <<images, thumbnails_added, calls>>
    /\ page_num' = page_num + 1
    /\ pc' = IF page_num + 1 < Len(Pages) THEN "pdf_page" ELSE "pdf_join"
    /\ UNCHANGED <<cfg, other, input, file_type, text_blocks, tables, raw_text, method,
                   confidence, page_count, img_index, slide_texts, da_result, result, response,
                   lastOcr>>

\* stage 2, end of a page: the thumbnail of a page without meaningful text
PdfThumb ==
    /\ pc = "pdf_thumb"
    /\ LET has_page_text ==
               \E i \in 1..Len(text_blocks) :
                   /\ text_blocks[i].page = page_num + 1
                   /\ Len(Strip(text_blocks[i].text)) >= 20
           data_url == render_page_thumbnail_data_url(CurPage)
       IN  IF thumbnails_added < cfg.max_thumbs /\ ~has_page_text
           THEN /\ calls' = Called("render")
                /\ IF Truthy(data_url)
                   THEN /\ images' = Append(images,
                                       [page |-> page_num + 1, type |-> "page_thumbnail",
                                        data_url |-> data_url.text,
                                        caption |-> "Page thumbnail (no text extracted)"])
                        /\ thumbnails_added' = thumbnails_added + 1
                   ELSE UNCHANGED <<images, thumbnails_added>>
           ELSE UNCHANGED <<images, thumbnails_added, calls>>
    /\ page_num' = page_num + 1
    /\ pc' = IF page_num + 1 < Len(Pages) THEN "pdf_page" ELSE "pdf_join"
    /\ UNCHANGED <<cfg, other, input, file_type, text_blocks, tables, raw_text, method,
                   confidence, page_count, img_index, slide_texts, da_result, result, response,
                   lastOcr>>

\* the trigger of stage 3: `if len(raw_text) < 100`
MutNeedsFullPageOcr(text) == Len(text) <= 100

NeedsFullPageOcr(text) == Len(text) < 100

\* end of stage 2: raw_text, confidence and method; stage 3 starts when
\* fewer than 100 characters were recovered
PdfJoin ==
    /\ pc = "pdf_join"
    /\ raw_text' = JoinBlocks(text_blocks)
    /\ confidence' = IF raw_text' # <<>> THEN Pct(85) ELSE Pct(0)
    /\ method' = "pymupdf"
    /\ IF NeedsFullPageOcr(raw_text')
       THEN /\ pc' = IF Len(Pages) = 0 THEN "pdf_ocr_end" ELSE "pdf_ocr"
            /\ page_num' = 0
            /\ calls' = [calls EXCEPT !.fitz_open = @ + 1, !.stage3 = @ + 1]
       ELSE /\ pc' = "pdf_return"
            /\ UNCHANGED <<page_num, calls>>
    /\ UNCHANGED <<cfg, other, input, file_type, text_blocks, tables, images, page_count,
                   thumbnails_added, img_index, slide_texts, da_result, result, response,
                   lastOcr>>

\* a stage 3 that replaces the block list by the block it recognized
MutPdfPageOcr ==
    /\ pc = "pdf_ocr"
    /\ IF ~CurPage.raster_ok
       THEN /\ pc' = "pdf_return"
            /\ UNCHANGED <<text_blocks, page_num, calls, lastOcr>>
       ELSE \E env \in OcrEnvsDoc :
              LET o == ocr_image(env, cfg)
              IN  /\ lastOcr' = OcrRecord(env, cfg)
                  /\ calls' = Called("ocr")
                  /\ IF o.raised
                     THEN /\ pc' = "pdf_return"
                          /\ UNCHANGED <<text_blocks, page_num>>
                     ELSE /\ text_blocks' = IF Truthy(o.ret)
                                            THEN <<Block(o.ret.text, page_num + 1, 60,
                                                         "page_ocr")>>
                                            ELSE text_blocks
                          /\ page_num' = page_num + 1
                          /\ pc' = IF page_num + 1 < Len(Pages)
                                   THEN "pdf_ocr" ELSE "pdf_ocr_end"
    /\ UNCHANGED <<cfg, other, input, file_type, tables, images, raw_text, method,
                   confidence, page_count, thumbnails_added, img_index, slide_texts,
                   da_result, result, response>>

\* stage 3, one page: rasterize the page and recognize it
PdfPageOcr ==
    /\ pc = "pdf_ocr"
    /\ IF ~CurPage.raster_ok
       THEN /\ pc' = "pdf_return"
            /\ UNCHANGED <<text_blocks, page_num, calls, lastOcr>>
       ELSE \E env \in OcrEnvsDoc :
              LET o == ocr_image(env, cfg)
              IN  /\ lastOcr' = OcrRecord(env, cfg)
                  /\ calls' = Called("ocr")
                  /\ IF o.raised
                     THEN /\ pc' = "pdf_return"
                          /\ UNCHANGED <<text_blocks, page_num>>
                     ELSE /\ text_blocks' = IF Truthy(o.ret)
                                            THEN Append(text_blocks,
                                                   Block(o.ret.text, page_num + 1, 60,
                                                         "page_ocr"))
                                            ELSE text_blocks
                          /\ page_num' = page_num + 1
                          /\ pc' = IF page_num + 1 < Len(Pages)
                                   THEN "pdf_ocr" ELSE "pdf_ocr_end"
    /\ UNCHANGED <<cfg, other, input, file_type, tables, images, raw_text, method,
                   confidence, page_count, thumbnails_added, img_index, slide_texts,
                   da_result, result, response>>

\* end of stage 3
PdfOcrEnd ==
    /\ pc = "pdf_ocr_end"
    /\ raw_text' = JoinBlocks(text_blocks)
    /\ method' = "pymupdf_ocr"
    /\ confidence' = Pct(60)
    /\ pc' = "pdf_return"
    /\ UNCHANGED <<cfg, other, input, file_type, text_blocks, tables, images, page_count,
                   thumbnails_added, page_num, img_index, slide_texts, da_result, result,
                   response, calls, lastOcr>>

\* the return of extract_pdf after the local stages, also reached from the
\* handler of an exception of stage 2 or 3
PdfReturn ==
    /\ pc = "pdf_return"
    /\ result' = [method |-> method, confidence |-> confidence,
                  text_blocks |-> text_blocks, tables |-> tables, images |-> images,
                  page_count |-> page_count, raw_text |-> raw_text]
    /\ pc' = "extracted"
    /\ UNCHANGED <<cfg, other, input, file_type, locals, response, calls, lastOcr>>

----------------------------------------------------------------------------
(* Tables, for extract_pptx and extract_docx *)

S_Table == <<91, 84, 97, 98, 108, 101, 93, 10>>                      \* "[Table]\n"
S_ImageText == <<91, 73, 109, 97, 103, 101, 32, 84, 101, 120, 116, 93, 10>>
S_SpeakerNotes == <<91, 83, 112, 101, 97, 107, 101, 114, 32, 78, 111, 116, 101, 115,
                    93, 10>>

\* table_data: every cell text stripped
TableData(rows) ==
    [r \in 1..Len(rows) |-> [k \in 1..Len(rows[r]) |-> Strip(rows[r][k])]]

\* '\n'.join([' | '.join(row) for row in table_data])
TableText(table_data) ==
    Join([r \in 1..Len(table_data) |-> Join(table_data[r], <<32, 124, 32>>)], <<10>>)

TableRecord(rows, page) ==
    [rows |-> TableData(rows), page |-> page, confidence |-> Pct(90)]

\* the table block, when the rendered table is not blank
TableBlocks(rows, page) ==
    LET table_text == TableText(TableData(rows))
    IN  IF Strip(table_text) # <<>>
        THEN <<Block(S_Table \o table_text, page, 90, "table")>>
        ELSE <<>>

----------------------------------------------------------------------------
(* extract_docx *)

Docx == input.file.doc

StartsWith(s, prefix) ==
    Len(s) >= Len(prefix) /\ SubSeq(s, 1, Len(prefix)) = prefix

\* the loop over doc.paragraphs
MutDocxParagraphBlocks(paragraphs) ==
    [i \in 1..Len(paragraphs) |->
        [text |-> Strip(paragraphs[i].text), page |-> 1, confidence |-> Pct(95),
         type |-> IF StartsWith(Lower(paragraphs[i].style), Lower(S_Heading))
                  THEN "heading" ELSE "paragraph"]]

DocxParagraphBlocks(paragraphs) ==
    LET all == [i \in 1..Len(paragraphs) |->
                  [text |-> Strip(paragraphs[i].text), page |-> 1,
                   confidence |-> Pct(95),
                   type |-> IF StartsWith(paragraphs[i].style, S_Heading)
                            THEN "heading" ELSE "paragraph"]]
    IN  SelectSeq(all, LAMBDA b : b.text # <<>>)

\* the loop over doc.tables
DocxTables(tbls) == [i \in 1..Len(tbls) |-> TableRecord(tbls[i], 1)]
DocxTableBlocks(tbls) == Flatten([i \in 1..Len(tbls) |-> TableBlocks(tbls[i], 1)])

\* Document(...), then the paragraphs and the tables
DocxOpen ==
    /\ pc = "docx_open"
    /\ IF input.file.kind = "docx"
       THEN /\ text_blocks' = DocxParagraphBlocks(Docx.paragraphs)
                              \o DocxTableBlocks(Docx.tables)
            /\ tables' = DocxTables(Docx.tables)
            /\ page_num' = 0
            /\ pc' = IF Docx.rels = <<>> THEN "docx_return" ELSE "docx_image"
       ELSE /\ pc' = "raised"
            /\ UNCHANGED <<text_blocks, tables, page_num>>
    /\ UNCHANGED <<cfg, other, input, file_type, images, raw_text, method, confidence,
                   page_count, thumbnails_added, img_index, slide_texts, da_result, result,
                   response, calls, lastOcr>>

\* the image loop with the cost gate of extract_pptx: an image is recognized
\* only while the document has under 50 characters of text
MutDocxImage ==
    /\ pc = "docx_image"
    /\ LET rel == Docx.rels[page_num + 1]
       IN  IF rel.is_image /\ rel.blob_ok /\ Len(JoinBlocks(text_blocks)) < 50
           THEN \E env \in OcrEnvsOffice :
                  LET o == ocr_image(env, cfg)
                      hit == ~o.raised /\ Truthy(o.ret) /\ Len(o.ret.text) > 20
                  IN  /\ lastOcr' = OcrRecord(env, cfg)
                      /\ calls' = Called("ocr")
                      /\ text_blocks' = IF hit
                                        THEN Append(text_blocks,
                                               Block(S_ImageText \o o.ret.text, 1, 70,
                                                     "image_ocr"))
                                        ELSE text_blocks
                      /\ images' = IF hit
                                   THEN Append(images, [ocr_text |-> o.ret.text])
                                   ELSE images
           ELSE UNCHANGED <<text_blocks, images, calls, lastOcr>>
    /\ page_num' = page_num + 1
    /\ pc' = IF page_num + 1 < Len(Docx.rels) THEN "docx_image" ELSE "docx_return"
    /\ UNCHANGED <<cfg, other, input, file_type, tables, raw_text, method, confidence,
                   page_count, thumbnails_added, img_index, slide_texts, da_result, result,
                   response>>

\* one relationship of the document part
DocxImage ==
    /\ pc = "docx_image"
    /\ LET rel == Docx.rels[page_num + 1]
       IN  IF rel.is_image /\ rel.blob_ok
           THEN \E env \in OcrEnvsOffice :
                  LET o == ocr_image(env, cfg)
                      hit == ~o.raised /\ Truthy(o.ret) /\ Len(o.ret.text) > 20
                  IN  /\ lastOcr' = OcrRecord(env, cfg)
                      /\ calls' = Called("ocr")
                      /\ text_blocks' = IF hit
                                        THEN Append(text_blocks,
                                               Block(S_ImageText \o o.ret.text, 1, 70,
                                                     "image_ocr"))
                                        ELSE text_blocks
                      /\ images' = IF hit
                                   THEN Append(images, [ocr_text |-> o.ret.text])
                                   ELSE images
           ELSE UNCHANGED <<text_blocks, images, calls, lastOcr>>
    /\ page_num' = page_num + 1
    /\ pc' = IF page_num + 1 < Len(Docx.rels) THEN "docx_image" ELSE "docx_return"
    /\ UNCHANGED <<cfg, other, input, file_type, tables, raw_text, method, confidence,
                   page_count, thumbnails_added, img_index, slide_texts, da_result, result,
                   response>>

\* the return of extract_docx
DocxReturn ==
    /\ pc = "docx_return"
    /\ raw_text' = JoinBlocks(text_blocks)
    /\ result' = [method |-> "python_docx", confidence |-> Pct(95),
                  text_blocks |-> text_blocks, tables |-> tables, images |-> images,
                  page_count |-> 1, raw_text |-> raw_text']
    /\ pc' = "extracted"
    /\ UNCHANGED <<cfg, other, input, file_type, text_blocks, tables, images, method,
                   confidence, page_count, thumbnails_added, page_num, img_index,
                   slide_texts, da_result, response, calls, lastOcr>>

----------------------------------------------------------------------------
(* extract_pptx *)

Slides == input.file.doc.slides
CurSlide == Slides[page_num + 1]

\* where the slide loop goes when it reaches slide number k (0-based)
PptxAt(k) ==
    IF k >= Len(Slides) THEN "pptx_return"
    ELSE IF Slides[k + 1].shapes = <<>> THEN "pptx_notes" ELSE "pptx_shape"

\* Presentation(...)
PptxOpen ==
    /\ pc = "pptx_open"
    /\ IF input.file.kind = "pptx"
       THEN /\ page_num' = 0
            /\ img_index' = 0
            /\ slide_texts' = <<>>
            /\ pc' = PptxAt(0)
       ELSE /\ pc' = "raised"
            /\ UNCHANGED <<page_num, img_index, slide_texts>>
    /\ UNCHANGED <<cfg, other, input, file_type, text_blocks, tables, images, raw_text,
                   method, confidence, page_count, thumbnails_added, da_result,
                   result, response, calls, lastOcr>>

\* the shape loop with each image record put in front of the earlier ones
MutPptxShape ==
    /\ pc = "pptx_shape"
    /\ LET shape == CurSlide.shapes[img_index + 1]
           slide_num == page_num + 1
           texts == IF shape.has_text_frame
                    THEN SelectSeq([i \in 1..Len(shape.paragraphs) |->
                                       Strip(shape.paragraphs[i])],
                                   LAMBDA t : t # <<>>)
                    ELSE <<>>
           frame_blocks == [i \in 1..Len(texts) |->
                               Block(texts[i], slide_num, 95, "text")]
           table_blocks == IF shape.has_table
                           THEN TableBlocks(shape.rows, slide_num) ELSE <<>>
           blocks == text_blocks \o frame_blocks \o table_blocks
           new_slide_texts == slide_texts \o texts
       IN  /\ slide_texts' = new_slide_texts
           /\ tables' = IF shape.has_table
                        THEN Append(tables, TableRecord(shape.rows, slide_num))
                        ELSE tables
           /\ IF shape.has_image /\ Len(Join(new_slide_texts, <<32>>)) < 50
                 /\ shape.blob_ok
              THEN \E env \in OcrEnvsOffice :
                     LET o == ocr_image(env, cfg)
                         hit == ~o.raised /\ Truthy(o.ret) /\ Len(o.ret.text) > 20
                     IN  /\ lastOcr' = OcrRecord(env, cfg)
                         /\ calls' = Called("ocr")
                         /\ text_blocks' = IF hit
                                           THEN Append(blocks,
                                                  Block(o.ret.text, slide_num, 70,
                                                        "image_ocr"))
                                           ELSE blocks
                         /\ images' = IF hit
                                      THEN <<[page |-> slide_num,
                                              ocr_text |-> o.ret.text]>> \o images
                                      ELSE images
              ELSE /\ text_blocks' = blocks
                   /\ UNCHANGED <<images, calls, lastOcr>>
    /\ img_index' = img_index + 1
    /\ pc' = IF img_index + 1 < Len(CurSlide.shapes) THEN "pptx_shape" ELSE "pptx_notes"
    /\ UNCHANGED <<cfg, other, input, file_type, raw_text, method, confidence, page_count,
                   thumbnails_added, page_num, da_result, result, response>>

\* one shape of a slide: its text frame, its table, its image
PptxShape ==
    /\ pc = "pptx_shape"
    /\ LET shape == CurSlide.shapes[img_index + 1]
           slide_num == page_num + 1
           texts == IF shape.has_text_frame
                    THEN SelectSeq([i \in 1..Len(shape.paragraphs) |->
                                       Strip(shape.paragraphs[i])],
                                   LAMBDA t : t # <<>>)
                    ELSE <<>>
           frame_blocks == [i \in 1..Len(texts) |->
                               Block(texts[i], slide_num, 95, "text")]
           table_blocks == IF shape.has_table
                           THEN TableBlocks(shape.rows, slide_num) ELSE <<>>
           blocks == text_blocks \o frame_blocks \o table_blocks
           new_slide_texts == slide_texts \o texts
       IN  /\ slide_texts' = new_slide_texts
           /\ tables' = IF shape.has_table
                        THEN Append(tables, TableRecord(shape.rows, slide_num))
                        ELSE tables
           /\ IF shape.has_image /\ Len(Join(new_slide_texts, <<32>>)) < 50
                 /\ shape.blob_ok
              THEN \E env \in OcrEnvsOffice :
                     LET o == ocr_image(env, cfg)
                         hit == ~o.raised /\ Truthy(o.ret) /\ Len(o.ret.text) > 20
                     IN  /\ lastOcr' = OcrRecord(env, cfg)
                         /\ calls' = Called("ocr")
                         /\ text_blocks' = IF hit
                                           THEN Append(blocks,
                                                  Block(o.ret.text, slide_num, 70,
                                                        "image_ocr"))
                                           ELSE blocks
                         /\ images' = IF hit
                                      THEN Append(images, [page |-> slide_num,
                                                           ocr_text |-> o.ret.text])
                                      ELSE images
              ELSE /\ text_blocks' = blocks
                   /\ UNCHANGED <<images, calls, lastOcr>>
    /\ img_index' = img_index + 1
    /\ pc' = IF img_index + 1 < Len(CurSlide.shapes) THEN "pptx_shape" ELSE "pptx_notes"
    /\ UNCHANGED <<cfg, other, input, file_type, raw_text, method, confidence, page_count,
                   thumbnails_added, page_num, da_result, result, response>>

\* the speaker notes of a slide, then the next slide
PptxNotes ==
    /\ pc = "pptx_notes"
    /\ LET notes_text == Strip(CurSlide.notes.text)
       IN  text_blocks' = IF CurSlide.notes.some /\ notes_text # <<>>
                          THEN Append(text_blocks,
                                 Block(S_SpeakerNotes \o notes_text, page_num + 1, 95,
                                       "speaker_notes"))
                          ELSE text_blocks
    /\ page_num' = page_num + 1
    /\ img_index' = 0
    /\ slide_texts' = <<>>
    /\ pc' = PptxAt(page_num + 1)
    /\ UNCHANGED <<cfg, other, input, file_type, tables, images, raw_text, method,
                   confidence, page_count, thumbnails_added, da_result, result, response, calls,
                   lastOcr>>

\* the return of extract_pptx
PptxReturn ==
    /\ pc = "pptx_return"
    /\ raw_text' = JoinBlocks(text_blocks)
    /\ result' = [method |-> "python_pptx", confidence |-> Pct(95),
                  text_blocks |-> text_blocks, tables |-> tables, images |-> images,
                  page_count |-> Len(Slides), raw_text |-> raw_text']
    /\ pc' = "extracted"
    /\ UNCHANGED <<cfg, other, input, file_type, text_blocks, tables, images, method,
                   confidence, page_count, thumbnails_added, page_num, img_index,
                   slide_texts, da_result, response, calls, lastOcr>>

----------------------------------------------------------------------------
(* Specifications *)

Next ==
    \/ Receive
    \/ Dispatch
    \/ ExtractTxt
    \/ PdfStage1
    \/ PdfOpen
    \/ PdfPageText
    \/ PdfImage
    \/ PdfThumb
    \/ PdfJoin
    \/ PdfPageOcr
    \/ PdfOcrEnd
    \/ PdfReturn
    \/ DocxOpen
    \/ DocxImage
    \/ DocxReturn
    \/ PptxOpen
    \/ PptxShape
    \/ PptxNotes
    \/ PptxReturn
    \/ BuildCanonical
    \/ HandleException

Spec == Init /\ [][Next]_vars

\* ocr_image on its own: every reply of the three services, every
\* setting of the enable flags
OcrCall ==
    /\ pc = "ocr"
    /\ \E env \in OcrEnvs : lastOcr' = OcrRecord(env, cfg)
    /\ calls' = Called("ocr")
    /\ pc' = "ocr_done"
    /\ UNCHANGED <<cfg, other, input, file_type, locals, result, response>>

InitOcr ==
    /\ cfg \in Configs
    /\ pc = "ocr"
    /\ input = [source |-> "none", filename |-> <<>>, mimetype |-> <<>>,
                file |-> CorruptFile, request_id |-> 0]
    /\ file_type = "none"
    /\ text_blocks = <<>>
    /\ tables = <<>>
    /\ images = <<>>
    /\ raw_text = <<>>
    /\ method = "none"
    /\ confidence = Pct(0)
    /\ page_count = 0
    /\ thumbnails_added = 0
    /\ page_num = 0
    /\ img_index = 0
    /\ slide_texts = <<>>
    /\ da_result = NoDocAi
    /\ result = NoResult
    /\ response = NoResponse
    /\ calls = NoCalls
    /\ lastOcr = NoOcr
    /\ other = IdleRequest

NextOcr == OcrCall

SpecOcr == InitOcr /\ [][NextOcr]_vars

----------------------------------------------------------------------------
(* Two requests served by two worker threads of the same process *)

\* the state of the running request handler
Saved ==
    [pc |-> pc, input |-> input, file_type |-> file_type,
     text_blocks |-> text_blocks, tables |-> tables, images |-> images,
     raw_text |-> raw_text, method |-> method, confidence |-> confidence,
     page_count |-> page_count, thumbnails_added |-> thumbnails_added,
     page_num |-> page_num, img_index |-> img_index, slide_texts |-> slide_texts,
     da_result |-> da_result, result |-> result, response |-> response,
     calls |-> calls, lastOcr |-> lastOcr]

\* a process in which text_blocks is one list shared by the two threads
MutSwitch ==
    /\ other' = Saved
    /\ pc' = other.pc
    /\ input' = other.input
    /\ file_type' = other.file_type
    /\ text_blocks' = text_blocks
    /\ tables' = other.tables
    /\ images' = other.images
    /\ raw_text' = other.raw_text
    /\ method' = other.method
    /\ confidence' = other.confidence
    /\ page_count' = other.page_count
    /\ thumbnails_added' = other.thumbnails_added
    /\ page_num' = other.page_num
    /\ img_index' = other.img_index
    /\ slide_texts' = other.slide_texts
    /\ da_result' = other.da_result
    /\ result' = other.result
    /\ response' = other.response
    /\ calls' = other.calls
    /\ lastOcr' = other.lastOcr
    /\ cfg' = cfg

\* the scheduler suspends the running handler and resumes the other one:
\* everything but the module-level configuration belongs to the handler
Switch ==
    /\ other' = Saved
    /\ pc' = other.pc
    /\ input' = other.input
    /\ file_type' = other.file_type
    /\ text_blocks' = other.text_blocks
    /\ tables' = other.tables
    /\ images' = other.images
    /\ raw_text' = other.raw_text
    /\ method' = other.method
    /\ confidence' = other.confidence
    /\ page_count' = other.page_count
    /\ thumbnails_added' = other.thumbnails_added
    /\ page_num' = other.page_num
    /\ img_index' = other.img_index
    /\ slide_texts' = other.slide_texts
    /\ da_result' = other.da_result
    /\ result' = other.result
    /\ response' = other.response
    /\ calls' = other.calls
    /\ lastOcr' = other.lastOcr
    /\ cfg' = cfg

\* a one-page PDF with a text layer of 100 characters
PdfLong ==
    [kind |-> "pdf", bytes |-> <<37, 80, 68, 70>>,
     doc |-> [pages |-> <<Page(Rep(97, 100) \o <<10>>, <<[pix_ok |-> TRUE]>>,
                               TRUE, TRUE, TRUE)>>]]

\* the requests of the two threads: a PDF, a text file, a corrupt DOCX and a
\* file of an unsupported type
RequestsConc ==
    { Upload(NameOf("pdf"), PdfLong),
      Upload(NameOf("txt"), [kind |-> "txt", bytes |-> <<65, 233>>,
                             doc |-> [pages |-> <<>>]]),
      Upload(NameOf("docx"), CorruptFile),
      Upload([filename |-> FN_a_bin, mimetype |-> MT_octet], CorruptFile) }

ReceiveConc == ReceiveFrom(RequestsConc)

InitConc == Init /\ ~cfg.vertex /\ ~cfg.openai

NextConc ==
    \/ ReceiveConc
    \/ Dispatch
    \/ ExtractTxt
    \/ BuildCanonical
    \/ HandleException
    \/ PdfStage1
    \/ PdfOpen
    \/ PdfPageText
    \/ PdfThumb
    \/ PdfJoin
    \/ PdfReturn
    \/ DocxOpen
    \/ Switch

SpecConc == InitConc /\ [][NextConc]_vars

----------------------------------------------------------------------------
(* extract_pdf on sparse pages, with a low and the default thumbnail cap *)

\* pages for the local stages: without text (the render succeeds / fails),
\* with a text layer of 10 characters and two embedded images (the first
\* cannot be decoded), with a text layer of 100 characters and an image, and
\* without text and failing to rasterize in stage 3
PdfPageSamplesSparse ==
    { Page(<<>>, <<>>, TRUE, TRUE, TRUE),
      Page(<<>>, <<>>, FALSE, TRUE, TRUE),
      Page(<<32>> \o Rep(98, 10) \o <<10>>,
           <<[pix_ok |-> FALSE], [pix_ok |-> TRUE]>>, TRUE, TRUE, TRUE),
      Page(Rep(97, 100) \o <<10>>, <<[pix_ok |-> TRUE]>>, TRUE, TRUE, TRUE),
      Page(<<>>, <<>>, TRUE, FALSE, TRUE) }

RequestsPdf ==
    {Upload(NameOf("pdf"),
            [kind |-> "pdf", bytes |-> <<37, 80, 68, 70>>, doc |-> [pages |-> ps]]) :
        ps \in SeqsUpTo(PdfPageSamplesSparse, MaxPages)}

ReceivePdf == ReceiveFrom(RequestsPdf)

\* no processor, both generative tiers enabled, MAX_PAGE_THUMBNAILS set to 1
\* or left at its default
InitPdf ==
    /\ cfg \in [processor : {FALSE}, vertex : {TRUE}, openai : {TRUE},
                max_thumbs : {1, MAX_PAGE_THUMBNAILS}]
    /\ pc = "idle"
    /\ input = IdleRequest.input
    /\ file_type = "none"
    /\ text_blocks = <<>>
    /\ tables = <<>>
    /\ images = <<>>
    /\ raw_text = <<>>
    /\ method = "none"
    /\ confidence = Pct(0)
    /\ page_count = 0
    /\ thumbnails_added = 0
    /\ page_num = 0
    /\ img_index = 0
    /\ slide_texts = <<>>
    /\ da_result = NoDocAi
    /\ result = NoResult
    /\ response = NoResponse
    /\ calls = NoCalls
    /\ lastOcr = NoOcr
    /\ other = IdleRequest

NextPdf ==
    \/ ReceivePdf
    \/ Dispatch
    \/ PdfStage1
    \/ PdfOpen
    \/ PdfPageText
    \/ PdfImage
    \/ PdfThumb
    \/ PdfJoin
    \/ PdfPageOcr
    \/ PdfOcrEnd
    \/ PdfReturn
    \/ BuildCanonical

SpecPdf == InitPdf /\ [][NextPdf]_vars

----------------------------------------------------------------------------
(* Properties *)

Range(f) == {f[i] : i \in DOMAIN f}

Answered == pc = "done" /\ response.status = 200
Returned == pc \in {"extracted", "done"} /\ (pc = "done" => response.status = 200)

\* C1: in every canonical document of a success response, stats.total_chars
\* is the length of content.full_text and stats.total_blocks is the number
\* of content.text_blocks, whichever extractor produced the result.
C1_StatsMatchContent ==
    Answered =>
        /\ response.canonical.stats.total_chars
             = Len(response.canonical.content.full_text)
        /\ response.canonical.stats.total_blocks
             = Len(response.canonical.content.text_blocks)

\* a canonical document whose full text is not the join of its blocks
\* (Document AI result with two paragraphs)
C1_Witness ==
    /\ Answered
    /\ response.canonical.extraction.method = "document_ai"
    /\ response.canonical.stats.total_blocks = 2
    /\ response.canonical.stats.total_chars = 6
    /\ response.canonical.content.full_text
         # JoinBlocks(response.canonical.content.text_blocks)

\* C2: in every ExtractionResult an extractor returns, raw_text is the
\* texts of text_blocks joined by a double newline, in block order.
C2_RawTextIsJoin ==
    Returned => result.raw_text = JoinBlocks(result.text_blocks)

\* C2, for the result extract_pdf returns after its local stages only: the
\* same statement, without the Document AI results
C2_RawTextIsJoinLocalPdf ==
    (Returned /\ file_type = "pdf" /\ result.method # "document_ai")
        => result.raw_text = JoinBlocks(result.text_blocks)

Stage2Text == JoinBlocks(SelectSeq(text_blocks, LAMBDA b : b.type # "page_ocr"))

\* C4: when extract_pdf ran its local stages and stage 2 recovered a raw
\* text of at least 100 characters, the method is pymupdf, the confidence
\* 0.85 and stage 3 was never started; stage 3 is started only when the raw
\* text of stage 2 is shorter than 100 characters.
C4_Stage2Suffices ==
    /\ (file_type = "pdf" /\ method \in {"pymupdf", "pymupdf_ocr"}
          /\ Len(Stage2Text) >= 100)
       => /\ method = "pymupdf"
          /\ QEq(confidence, Pct(85))
          /\ calls.stage3 = 0
          /\ pc \in {"pdf_return", "extracted", "done"}
          /\ pc \in {"extracted", "done"}
               => result.method = "pymupdf" /\ QEq(result.confidence, Pct(85))
    /\ (file_type = "pdf" /\ calls.stage3 > 0) => Len(Stage2Text) < 100

\* no processor configured, two pages of 49 characters each: a raw text of
\* exactly 100 characters
C4_Witness ==
    /\ pc = "done"
    /\ ~cfg.processor
    /\ file_type = "pdf"
    /\ result.method = "pymupdf"
    /\ Len(result.raw_text) = 100
    /\ Len(result.text_blocks) = 2
    /\ calls.stage3 = 0

\* C5: when the container of a PDF, PPTX or DOCX cannot be opened, /extract
\* ends with an error response (status 500) and builds no canonical document.
C5_OpenFailureIsError ==
    (pc = "done" /\ input.source = "upload"
       /\ file_type \in {"pdf", "pptx", "docx"} /\ input.file.kind # file_type)
    => (response.status = 500 /\ calls.build = 0)

\* C6: when detect_file_type returns unknown, /extract answers 400
\* (unsupported file type) without raising, calls no extractor and builds no
\* canonical document.
C6_UnknownRejected ==
    file_type = "unknown"
    => /\ pc = "done"
       /\ response.status = 400
       /\ response.kind = "unsupported"
       /\ calls.pdf = 0 /\ calls.pptx = 0 /\ calls.docx = 0 /\ calls.txt = 0
       /\ calls.build = 0 /\ calls.ocr = 0 /\ calls.docai = 0
       /\ result = NoResult

C6_Witness ==
    /\ pc = "done"
    /\ file_type = "unknown"
    /\ input.filename = FN_a_bin
    /\ input.file.kind = "txt"
    /\ response.status = 400

\* a tier has text: its reply carries text that is not blank
VisionHasText(e) ==
    e.vision.kind = "ok" /\ e.vision.annots # <<>> /\ Strip(e.vision.annots[1]) # <<>>
VertexHasText(e) == e.vertex.kind = "ok" /\ Strip(e.vertex.text) # <<>>
OpenAIHasText(e) == e.openai.kind = "ok" /\ Strip(e.openai.text) # <<>>

\* C7: ocr_image calls the tiers in the order vision, vertex, openai, and
\* calls no later tier once a tier returned non-empty text; when vision
\* raises and the enabled vertex tier returns text T, ocr_image returns T
\* and openai is not called.
C7_TierOrder ==
    lastOcr.called =>
      LET e == lastOcr.env
          o == lastOcr.out
      IN  /\ o.calls \in {<<"vision">>, <<"vision", "vertex">>, <<"vision", "openai">>,
                          <<"vision", "vertex", "openai">>}
          /\ VisionHasText(e)
               => o.calls = <<"vision">> /\ o.ret = Some(Strip(e.vision.annots[1]))
          /\ ("vertex" \in Range(o.calls) /\ VertexHasText(e))
               => "openai" \notin Range(o.calls) /\ o.ret = Some(Strip(e.vertex.text))
          /\ (e.vision.kind = "raise" /\ cfg.vertex /\ VertexHasText(e))
               => o.ret = Some(Strip(e.vertex.text)) /\ o.calls = <<"vision", "vertex">>

\* vision raised, vertex answered "Invoice #123", openai was enabled and
\* would have answered too
C7_Witness ==
    /\ lastOcr.called
    /\ lastOcr.env.vision.kind = "raise"
    /\ cfg.vertex /\ cfg.openai
    /\ lastOcr.env.vertex = [kind |-> "ok", text |-> TInvoice]
    /\ lastOcr.env.openai = [kind |-> "ok", text |-> TLong]
    /\ lastOcr.out.ret = Some(TInvoice)
    /\ lastOcr.out.calls = <<"vision", "vertex">>

\* every enabled tier failed: none of them has text
AllTiersFail(e, c) ==
    /\ ~VisionHasText(e)
    /\ c.vertex => ~VertexHasText(e)
    /\ c.openai => ~OpenAIHasText(e)

\* C8: ocr_image never raises, and it returns null when every enabled tier
\* fails (exception, non-2xx, malformed response or empty text).
C8_NeverRaisesNullOnFailure ==
    lastOcr.called =>
        /\ ~lastOcr.out.raised
        /\ AllTiersFail(lastOcr.env, cfg) => lastOcr.out.ret = None

\* C8, the part the code keeps: ocr_image never raises, and when every
\* enabled tier fails it returns nothing a caller takes for text
C8_NeverRaises ==
    lastOcr.called =>
        /\ ~lastOcr.out.raised
        /\ AllTiersFail(lastOcr.env, cfg) => ~Truthy(lastOcr.out.ret)

\* C9: extract_txt returns, for every byte buffer, a result of confidence
\* 1.0 with exactly one block (type text, confidence 1.0, page 1) whose text
\* is the buffer decoded as utf-8 when that succeeds and as latin-1
\* otherwise; it never raises.
C9_TxtOneBlock ==
    file_type = "txt" =>
      /\ pc # "raised"
      /\ pc = "done" => response.status = 200
      /\ pc \in {"extracted", "done"} =>
           LET b == input.file.bytes
               expected == IF Utf8Decode(b).ok THEN Utf8Decode(b).text
                           ELSE [i \in 1..Len(b) |-> b[i]]
           IN  /\ QEq(result.confidence, Pct(100))
               /\ Len(result.text_blocks) = 1
               /\ result.text_blocks[1].text = expected
               /\ result.text_blocks[1].type = "text"
               /\ result.text_blocks[1].page = 1
               /\ QEq(result.text_blocks[1].confidence, Pct(100))

\* a buffer that is valid utf-8 and decodes to fewer code points than bytes
C9_Witness ==
    /\ pc = "done"
    /\ file_type = "txt"
    /\ input.file.bytes = <<65, 195, 169>>
    /\ result.text_blocks[1].text = <<65, 233>>

\* the k-th smallest element of a set of numbers
RECURSIVE Kth(_, _)
Kth(S, k) == IF k = 1 THEN Min(S) ELSE Kth(S \ {Min(S)}, k - 1)

\* C10: for a DOCX without tables and without images, extract_docx emits
\* one block per paragraph whose stripped text is not empty, in document
\* order, with page 1 and confidence 0.95, of type heading when the style
\* name starts with "Heading" and paragraph otherwise.
C10_DocxParagraphs ==
    (file_type = "docx" /\ input.file.kind = "docx" /\ pc \in {"extracted", "done"}
       /\ Docx.tables = <<>>
       /\ \A i \in 1..Len(Docx.rels) : ~Docx.rels[i].is_image)
    => LET ps == Docx.paragraphs
           I == {i \in 1..Len(ps) : Strip(ps[i].text) # <<>>}
       IN  /\ Len(result.text_blocks) = Cardinality(I)
           /\ \A k \in 1..Cardinality(I) :
                LET p == ps[Kth(I, k)]
                    blk == result.text_blocks[k]
                IN  /\ blk.text = Strip(p.text)
                    /\ blk.page = 1
                    /\ QEq(blk.confidence, Pct(95))
                    /\ blk.type = IF StartsWith(p.style, S_Heading)
                                  THEN "heading" ELSE "paragraph"
           /\ ps = <<ParaIntro, ParaHello>>
                => result.text_blocks
                     = << [text |-> S_Introduction, page |-> 1,
                           confidence |-> Pct(95), type |-> "heading"],
                          [text |-> S_HelloWorld, page |-> 1,
                           confidence |-> Pct(95), type |-> "paragraph"] >>

\* the heading "Introduction" followed by the body "Hello world"
C10_Witness ==
    /\ pc = "done"
    /\ file_type = "docx"
    /\ input.file.kind = "docx"
    /\ Docx.paragraphs = <<ParaIntro, ParaHello>>
    /\ Docx.tables = <<>> /\ Docx.rels = <<>>
    /\ response.status = 200
    /\ Len(response.canonical.content.text_blocks) = 2

\* the PDF of the request has at least one page, and every page has an
\* empty text layer and no embedded image
BlankPdf ==
    /\ file_type = "pdf"
    /\ input.file.kind = "pdf"
    /\ Len(input.file.doc.pages) >= 1
    /\ \A i \in 1..Len(input.file.doc.pages) :
         /\ Strip(input.file.doc.pages[i].text) = <<>>
         /\ input.file.doc.pages[i].images = <<>>

\* C11: for a PDF with zero extractable text on every page and zero embedded
\* images, the result of extract_pdf holds at least one page_thumbnail image
\* (and at most MAX_PAGE_THUMBNAILS of them) and its raw_text is empty.
C11_BlankPdfHasThumbnail ==
    (Returned /\ BlankPdf)
    => /\ \E i \in 1..Len(result.images) : result.images[i].type = "page_thumbnail"
       /\ Len(result.images) <= MAX_PAGE_THUMBNAILS
       /\ result.raw_text = <<>>

\* a canonical document with its timestamp blanked
WithoutTimestamp(c) == [c EXCEPT !.extraction.timestamp = 0]

\* C12: build_canonical_model is deterministic and leaves its argument
\* alone: on the step that builds the canonical document, the
\* ExtractionResult is unchanged, and the document built is, in every field
\* other than extraction.timestamp, the one the same call returns at any
\* other time.
C12_BuildDeterministic ==
    [][(pc = "extracted" /\ pc' = "done")
        => /\ result' = result
           /\ \A t \in Timestamps :
                WithoutTimestamp(response'.canonical)
                  = WithoutTimestamp(build_canonical_model(result, input.filename,
                        file_type, Len(input.file.bytes), input.request_id, t))]_vars

\* a canonical document built at the later time from a result with a block,
\* a table and an image
C12_Witness ==
    /\ Answered
    /\ response.canonical.extraction.timestamp = 2
    /\ Len(result.text_blocks) >= 1
    /\ Len(result.tables) >= 1
    /\ Len(result.images) >= 1
    /\ response.canonical.structure.tables = result.tables

\* the tag of a recognized extension, "none" for any other extension
TagOfExt(ext) ==
    CASE ext = S_pdf -> "pdf"
      [] ext \in {S_pptx, S_ppt} -> "pptx"
      [] ext \in {S_docx, S_doc} -> "docx"
      [] ext = S_txt -> "txt"
      [] ext \in ImageExts -> "image"
      [] OTHER -> "none"

\* C13: the extension takes precedence over the MIME type: when the
\* filename of the request has a recognized extension, detect_file_type
\* returns the tag of that extension, whatever the MIME type is.
C13_ExtensionFirst ==
    (file_type # "none" /\ TagOfExt(Ext(input.filename)) # "none")
    => file_type = TagOfExt(Ext(input.filename))

\* C14: in every ExtractionResult, each Table of tables has a block of type
\* table on the same page whose text contains the table's rows joined by
\* " | ", and there are as many table blocks as tables.
C14_TablesHaveBlocks ==
    Returned =>
        /\ \A i \in 1..Len(result.tables) :
             \E k \in 1..Len(result.text_blocks) :
                /\ result.text_blocks[k].type = "table"
                /\ result.text_blocks[k].page = result.tables[i].page
                /\ Contains(result.text_blocks[k].text,
                            TableText(result.tables[i].rows))
        /\ Cardinality({k \in 1..Len(result.text_blocks) :
                           result.text_blocks[k].type = "table"})
             = Len(result.tables)

\* how often a tier was called in the most recent ocr_image call
TierCalls(tier) ==
    Cardinality({i \in 1..Len(lastOcr.out.calls) : lastOcr.out.calls[i] = tier})

\* C15: no engine is retried: in one request at most one extractor is
\* invoked and at most once, Document AI is called at most once, and in one
\* ocr_image call each of the three recognition tiers is called at most
\* once, also when the optical tier raises or returns no annotation.
C15_NoRetry ==
    /\ calls.pdf + calls.pptx + calls.docx + calls.txt <= 1
    /\ calls.docai <= 1
    /\ \A tier \in {"vision", "vertex", "openai"} : TierCalls(tier) <= 1

\* a PDF request that called Document AI, fell back to the local stages and
\* whose last ocr_image call saw the optical tier raise and went on to
\* another tier
C15_Witness ==
    /\ pc = "done"
    /\ calls.pdf = 1 /\ calls.docai = 1 /\ calls.ocr >= 1
    /\ lastOcr.called
    /\ lastOcr.env.vision.kind = "raise"
    /\ Len(lastOcr.out.calls) >= 2
    /\ TierCalls("vision") = 1

\* the success response for an ExtractionResult, built at time now
SuccessResponse(res, inp, ftype, now) ==
    [status |-> 200, kind |-> "success", requestId |-> inp.request_id,
     canonical |-> build_canonical_model(res, inp.filename, ftype,
                      Len(inp.file.bytes), inp.request_id, now),
     extractionMethod |-> res.method, confidence |-> res.confidence]

\* what extract_pdf returns for a PDF whose pages all have a text layer of at
\* least 100 characters and no failure: the Document AI result when stage 1
\* is configured and accepts it, the text layers otherwise
AlonePdfResults(file, c) ==
    LET ps == file.doc.pages
        blocks == [i \in 1..Len(ps) |-> Block(Strip(ps[i].text), i, 85, "paragraph")]
        local == [method |-> "pymupdf", confidence |-> Pct(85),
                  text_blocks |-> blocks, tables |-> <<>>, images |-> <<>>,
                  page_count |-> Len(ps), raw_text |-> JoinBlocks(blocks)]
        da == {extract_pdf_with_document_ai(reply) : reply \in DocAiReplies}
    IN  IF c.processor
        THEN {r.val : r \in {x \in da : Stage1Accepts(x)}}
             \cup (IF \E x \in da : ~Stage1Accepts(x) THEN {local} ELSE {})
        ELSE {local}

\* the responses a request of RequestsConc gets when it is served alone
AloneResponses(inp, c) ==
    LET t == detect_file_type(inp.filename, inp.mimetype)
        x == ExtractorFor(t)
    IN  CASE x = "none" -> {[status |-> 400, kind |-> "unsupported", file_type |-> t]}
          [] x = "txt" ->
               {SuccessResponse(extract_txt(inp.file.bytes), inp, t, now) :
                   now \in Timestamps}
          [] x = "pdf" /\ inp.file.kind = "pdf" ->
               {SuccessResponse(res, inp, t, now) :
                   res \in AlonePdfResults(inp.file, c), now \in Timestamps}
          [] OTHER -> {[status |-> 500, kind |-> "error", requestId |-> inp.request_id]}

\* a finished request of RequestsConc has one of the responses it gets alone
RespondsAsAlone(p, inp, resp) ==
    (p = "done"
       /\ [source |-> inp.source, filename |-> inp.filename,
           mimetype |-> inp.mimetype, file |-> inp.file] \in RequestsConc)
    => resp \in AloneResponses(inp, cfg)

\* C16: two requests served concurrently share no mutable state: after every
\* step of every interleaving, the configuration is unchanged and each
\* finished request, the running one and the suspended one, has a response
\* it would get when served alone.
C16_RequestsIndependent ==
    [][/\ cfg' = cfg
       /\ RespondsAsAlone(pc', input', response')
       /\ RespondsAsAlone(other'.pc, other'.input, other'.response)]_vars

\* both requests are answered: a PDF by the local text layer, a text file
\* by the other thread
C16_Witness ==
    /\ pc = "done" /\ response.status = 200
    /\ input.file.kind = "pdf" /\ result.method = "pymupdf"
    /\ other.pc = "done" /\ other.response.status = 200
    /\ other.input.file.kind = "txt"
    /\ other.input.request_id # input.request_id
    /\ Len(other.result.text_blocks) = 1

\* C17: the canonical document passes the extractor's output through
\* unchanged: content.text_blocks is the result's text_blocks in the same
\* order, content.full_text its raw_text, structure.tables and
\* structure.images its tables and images, and id is the request id minted
\* for the request.
C17_PassThrough ==
    Answered =>
        /\ response.canonical.content.text_blocks = result.text_blocks
        /\ response.canonical.content.full_text = result.raw_text
        /\ response.canonical.structure.tables = result.tables
        /\ response.canonical.structure.images = result.images
        /\ response.canonical.id = input.request_id
        /\ response.requestId = input.request_id

\* the second request id, and a result with a block, a table and a raw text
\* that is not the join of the blocks
C17_Witness ==
    /\ Answered
    /\ input.request_id = 2
    /\ response.canonical.id = 2
    /\ Len(result.text_blocks) >= 1
    /\ Len(result.tables) = 1
    /\ result.raw_text # JoinBlocks(result.text_blocks)
    /\ response.canonical.content.full_text = result.raw_text

\* C18: the images of an ExtractionResult are of a single variant: either
\* every record is an OCR record with exactly the fields page and ocr_text,
\* or every record is a page thumbnail with the fields page, type
\* (page_thumbnail), data_url and caption.
C18_SingleImageVariant ==
    Returned =>
        \/ \A i \in 1..Len(result.images) :
              DOMAIN result.images[i] = {"page", "ocr_text"}
        \/ \A i \in 1..Len(result.images) :
              /\ DOMAIN result.images[i] = {"page", "type", "data_url", "caption"}
              /\ result.images[i].type = "page_thumbnail"

\* stage 1 of the running extract_pdf was skipped, raised, or returned a
\* confidence below 0.70
Stage1Inconclusive ==
    \/ ~cfg.processor
    \/ da_result.called /\ da_result.exc
    \/ da_result.called /\ ~da_result.exc /\ ~QGe(da_result.val.confidence, Pct(70))

\* C19: extract_pdf calls Document AI only when a processor is configured;
\* whenever stage 1 was skipped, raised or returned a confidence below 0.70,
\* stage 2 is attempted (fitz.open is called); and an exception of stage 1
\* never makes extract_pdf raise: the request is still answered with 200.
C19_Stage1Fallback ==
    /\ calls.docai > 0 => cfg.processor
    /\ da_result.called => cfg.processor
    /\ (file_type = "pdf" /\ pc \notin {"pdf_stage1", "pdf_open"} /\ Stage1Inconclusive)
         => calls.fitz_open >= 1
    /\ (file_type = "pdf" /\ da_result.called /\ da_result.exc)
         => /\ pc # "raised"
            /\ pc = "done" => response.status = 200

\* Document AI raised, stage 2 opened the PDF and read a text layer, and the
\* request was answered
C19_Witness ==
    /\ pc = "done"
    /\ file_type = "pdf"
    /\ cfg.processor /\ da_result.called /\ da_result.exc
    /\ calls.docai = 1 /\ calls.fitz_open = 1
    /\ result.method = "pymupdf"
    /\ Len(result.text_blocks) = 2
    /\ response.status = 200

\* stage 3 of the returned extract_pdf was started and aborted by an
\* exception: the method is still the one stage 2 set
Stage3Aborted ==
    /\ Returned
    /\ file_type = "pdf"
    /\ calls.stage3 > 0
    /\ result.method = "pymupdf"

\* C20: when stage 3 raises on a page, extract_pdf returns what stage 2
\* accumulated: text_blocks without any page_ocr block of the aborted
\* stage 3, the raw_text stage 2 joined from them, and the confidence of
\* stage 2.
C20_Stage3AbortKeepsStage2 ==
    Stage3Aborted =>
        /\ \A i \in 1..Len(result.text_blocks) :
              result.text_blocks[i].type # "page_ocr"
        /\ result.raw_text = JoinBlocks(result.text_blocks)
        /\ QEq(result.confidence,
               IF result.raw_text # <<>> THEN Pct(85) ELSE Pct(0))

IsPrefix(s, t) == Len(s) <= Len(t) /\ \A i \in 1..Len(s) : s[i] = t[i]

\* the order of the blocks of the local stages of extract_pdf: the blocks of
\* stage 2 first, by page, a page's paragraph block before its ocr blocks;
\* then the page_ocr blocks of stage 3, confidence 0.6, by page
PdfBlockOrder(bs) ==
    /\ \A i \in 1..Len(bs) :
         /\ bs[i].type \in {"paragraph", "ocr", "page_ocr"}
         /\ bs[i].type = "page_ocr" => QEq(bs[i].confidence, Pct(60))
    /\ \A i, j \in 1..Len(bs) :
         i < j =>
            /\ bs[i].type = "page_ocr"
                 => bs[j].type = "page_ocr" /\ bs[i].page < bs[j].page
            /\ (bs[i].type # "page_ocr" /\ bs[j].type # "page_ocr")
                 => /\ bs[i].page <= bs[j].page
                    /\ bs[i].page = bs[j].page => bs[j].type = "ocr"

\* C21: block accumulation in extract_pdf is append-only: every step of the
\* local stages keeps the blocks it found as a prefix of the block list,
\* stage 3 appends nothing but page_ocr blocks, the list is always ordered
\* stage 2 (by page, paragraph before ocr) then stage 3 (page_ocr, 0.6, by
\* page), and the list returned is the list accumulated.
C21_AppendOnly ==
    [][file_type' = "pdf"
        => /\ IsPrefix(text_blocks, text_blocks')
           /\ PdfBlockOrder(text_blocks')
           /\ pc \in {"pdf_ocr", "pdf_ocr_end"}
                => \A i \in (Len(text_blocks) + 1)..Len(text_blocks') :
                      text_blocks'[i].type = "page_ocr"
           /\ (pc = "pdf_return" /\ pc' = "extracted")
                => result'.text_blocks = text_blocks]_vars

\* a result with the paragraph and the ocr block of page 1 followed by the
\* page_ocr blocks of pages 1 and 2
C21_Witness ==
    /\ Returned
    /\ file_type = "pdf"
    /\ result.method = "pymupdf_ocr"
    /\ Len(result.text_blocks) = 4
    /\ result.text_blocks[1].type = "paragraph" /\ result.text_blocks[1].page = 1
    /\ result.text_blocks[2].type = "ocr" /\ result.text_blocks[2].page = 1
    /\ result.text_blocks[3].type = "page_ocr" /\ result.text_blocks[3].page = 1
    /\ result.text_blocks[4].type = "page_ocr" /\ result.text_blocks[4].page = 2

\* the embedded images of a page that can be decoded
Decodable(page) == {k \in 1..Len(page.images) : page.images[k].pix_ok}

\* a page whose stripped text layer is under 100 characters
Sparse(page) == Len(Strip(page.text)) < 100

\* the ocr_image calls stage 2 owes to the first n pages: one per decodable
\* image of every sparse page
RECURSIVE ImageOcrCalls(_, _)
ImageOcrCalls(pages, n) ==
    IF n = 0 THEN 0
    ELSE ImageOcrCalls(pages, n - 1)
           + (IF Sparse(pages[n]) THEN Cardinality(Decodable(pages[n])) ELSE 0)

\* C22: at the end of stage 2, ocr_image has been called once for every
\* decodable embedded image of every page with under 100 characters of text
\* and for no image of any other page (an image that fails does not stop
\* the images and pages after it); the ocr blocks have confidence 0.7, a
\* non-empty text and the page of their image, at most one per call, and
\* the last call's non-empty result is the last ocr block.
C22_ImageOcrGate ==
    (file_type = "pdf" /\ pc = "pdf_join")
    => LET ocrs == SelectSeq(text_blocks, LAMBDA b : b.type = "ocr")
       IN  /\ calls.ocr = ImageOcrCalls(Pages, Len(Pages))
           /\ Len(ocrs) <= calls.ocr
           /\ \A i \in 1..Len(ocrs) :
                /\ QEq(ocrs[i].confidence, Pct(70))
                /\ ocrs[i].text # <<>>
                /\ ocrs[i].page \in 1..Len(Pages)
                /\ Sparse(Pages[ocrs[i].page])
                /\ Cardinality({k \in 1..Len(ocrs) : ocrs[k].page = ocrs[i].page})
                     <= Cardinality(Decodable(Pages[ocrs[i].page]))
           /\ (calls.ocr > 0 /\ Truthy(lastOcr.out.ret))
                => /\ Len(ocrs) > 0
                   /\ ocrs[Len(ocrs)].text = lastOcr.out.ret.text
           /\ (calls.ocr > 0 /\ ~Truthy(lastOcr.out.ret)) => Len(ocrs) < calls.ocr

\* a page of 10 characters whose first image cannot be decoded and whose
\* second image is recognized, followed by a page of 100 characters whose
\* image is not sent to recognition
C22_Witness ==
    /\ file_type = "pdf" /\ pc = "pdf_join"
    /\ Len(Pages) = 2
    /\ Len(Strip(Pages[1].text)) = 10 /\ Len(Pages[1].images) = 2
    /\ ~Pages[1].images[1].pix_ok /\ Pages[1].images[2].pix_ok
    /\ Len(Strip(Pages[2].text)) = 100 /\ Len(Pages[2].images) = 1
    /\ calls.ocr = 1
    /\ Len(text_blocks) = 3
    /\ text_blocks[2].type = "ocr" /\ text_blocks[2].page = 1

\* the characters of the blocks stage 2 emitted for page p: the text layer
\* and the per-image OCR texts
RECURSIVE PageBlockChars(_, _, _)
PageBlockChars(bs, p, n) ==
    IF n = 0 THEN 0
    ELSE PageBlockChars(bs, p, n - 1)
           + (IF bs[n].page = p /\ bs[n].type \in {"paragraph", "ocr"}
              THEN Len(Strip(bs[n].text)) ELSE 0)

HasThumbnail(p) == \E i \in 1..Len(images) : images[i].page = p

\* C23: with the cap out of reach, at the end of stage 2 a page has a
\* thumbnail exactly when its block text (text layer plus per-image OCR
\* text) totals fewer than 20 characters and the render succeeded; a page
\* with 20 or more characters of block text has no thumbnail.
C23_ThumbnailRule ==
    (file_type = "pdf" /\ pc = "pdf_join" /\ cfg.max_thumbs > Len(Pages))
    => \A p \in 1..Len(Pages) :
          HasThumbnail(p)
            <=> /\ PageBlockChars(text_blocks, p, Len(text_blocks)) < 20
                /\ Pages[p].thumb_ok

\* the pages among the first n for which stage 2 asks for a thumbnail and
\* the render succeeds
Renderable(n) ==
    {p \in 1..n :
        /\ Pages[p].thumb_ok
        /\ ~\E i \in 1..Len(text_blocks) :
               /\ text_blocks[i].page = p
               /\ text_blocks[i].type \in {"paragraph", "ocr"}
               /\ Len(Strip(text_blocks[i].text)) >= 20}

\* C24: the result of extract_pdf never holds more than MAX_PAGE_THUMBNAILS
\* page_thumbnail records; a render that returns None appends nothing, is
\* not counted, and the page loop goes on: at the end of stage 2 the
\* thumbnails are those of the first renderable pages, up to the cap.
C24_ThumbnailCap ==
    /\ file_type = "pdf" =>
         /\ Len(images) <= cfg.max_thumbs
         /\ thumbnails_added = Len(images)
         /\ \A i \in 1..Len(images) :
              /\ images[i].type = "page_thumbnail"
              /\ Pages[images[i].page].thumb_ok
    /\ (file_type = "pdf" /\ pc = "pdf_join") =>
         /\ page_num = Len(Pages)
         /\ Len(images) = IF Cardinality(Renderable(Len(Pages))) < cfg.max_thumbs
                          THEN Cardinality(Renderable(Len(Pages)))
                          ELSE cfg.max_thumbs
         /\ \A p \in 1..Len(Pages) :
              (\E i \in 1..Len(images) : images[i].page = p)
                => /\ p \in Renderable(Len(Pages))
                   /\ Cardinality(Renderable(p)) <= cfg.max_thumbs
    /\ (file_type = "pdf" /\ Returned) => Len(result.images) <= cfg.max_thumbs

\* MAX_PAGE_THUMBNAILS is 1: the render of page 1 failed and page 2 got the
\* only thumbnail
C24_Witness ==
    /\ Returned
    /\ file_type = "pdf"
    /\ cfg.max_thumbs = 1
    /\ Len(Pages) = 2
    /\ ~Pages[1].thumb_ok /\ Pages[2].thumb_ok
    /\ calls.render = 2
    /\ Len(result.images) = 1
    /\ result.images[1].page = 2

\* MAX_PAGE_THUMBNAILS is 1 and two pages could be rendered: the second one
\* got no thumbnail
C24_WitnessCapBinds ==
    /\ Returned
    /\ file_type = "pdf"
    /\ cfg.max_thumbs = 1
    /\ Len(Pages) = 2
    /\ Pages[1].thumb_ok /\ Pages[2].thumb_ok
    /\ Pages[1].text = <<>> /\ Pages[2].text = <<>>
    /\ calls.render = 1
    /\ Len(result.images) = 1

\* the optical tier answered and found no text: no annotation, or a first
\* annotation whose description is empty or whitespace only
VisionEmpty(env) ==
    /\ env.vision.kind = "ok"
    /\ \/ env.vision.annots = <<>>
       \/ Strip(env.vision.annots[1]) = <<>>

\* C25: an empty result of a tier falls through like a failure: when the
\* optical tier yields empty text and a generative tier is enabled, that
\* tier is attempted, and ocr_image never returns the empty string.
C25_EmptyFallsThrough ==
    lastOcr.called =>
        /\ (VisionEmpty(lastOcr.env) /\ (cfg.vertex \/ cfg.openai))
             => /\ Len(lastOcr.out.calls) >= 2
                /\ lastOcr.out.calls[2] = IF cfg.vertex THEN "vertex" ELSE "openai"
        /\ lastOcr.out.ret # Some(<<>>)

\* the characters of the first n blocks of bs that belong to slide p
RECURSIVE SlideBlockChars(_, _, _)
SlideBlockChars(bs, p, n) ==
    IF n = 0 THEN 0
    ELSE SlideBlockChars(bs, p, n - 1) + (IF bs[n].page = p THEN Len(bs[n].text) ELSE 0)

\* C26: extract_pptx sends an embedded image to ocr_image only if the
\* blocks already emitted for its slide hold fewer than 50 characters; once
\* a slide has 50 or more characters of extracted text, no later image of
\* that slide is sent to recognition.
C26_PptxOcrGate ==
    [][(pc = "pptx_shape" /\ calls'.ocr = calls.ocr + 1)
         => SlideBlockChars(text_blocks, page_num + 1, Len(text_blocks)) < 50]_vars

ImageOcrBlocks(bs) == SelectSeq(bs, LAMBDA b : b.type = "image_ocr")

\* C27: in extract_pptx and extract_docx a recognized image text of 20
\* characters or more, exactly 20 included, becomes an image_ocr block of
\* confidence 0.7 together with an image record; a shorter text, or none,
\* produces neither.
C27_ImageTextThreshold ==
    [][(pc \in {"pptx_shape", "docx_image"} /\ calls'.ocr = calls.ocr + 1)
         => LET o == lastOcr'.out
                long == ~o.raised /\ Truthy(o.ret) /\ Len(o.ret.text) >= 20
            IN  IF long
                THEN /\ Len(text_blocks') > 0
                     /\ text_blocks'[Len(text_blocks')].type = "image_ocr"
                     /\ text_blocks'[Len(text_blocks')].confidence = Pct(70)
                     /\ Len(ImageOcrBlocks(text_blocks'))
                          = Len(ImageOcrBlocks(text_blocks)) + 1
                     /\ Len(images') = Len(images) + 1
                     /\ images'[Len(images')].ocr_text = o.ret.text
                ELSE /\ ImageOcrBlocks(text_blocks') = ImageOcrBlocks(text_blocks)
                     /\ images' = images]_vars

\* the relationships among the first n of the document part that are
\* embedded images: "image" in target_ref and a readable target part
DocxImageRels(n) == {i \in 1..n : Docx.rels[i].is_image /\ Docx.rels[i].blob_ok}

\* C28: extract_docx passes every embedded image of the document to
\* ocr_image exactly once, whatever text the paragraphs and tables gave; a
\* failed recognition or an unreadable relationship does not abort the
\* extraction and the remaining images are still processed.
C28_DocxEveryImage ==
    (file_type = "docx" /\ input.file.kind = "docx") =>
        /\ pc # "raised"
        /\ pc = "docx_image" =>
             /\ page_num < Len(Docx.rels)
             /\ calls.ocr = Cardinality(DocxImageRels(page_num))
        /\ pc = "docx_return" => page_num = Len(Docx.rels)
        /\ (pc = "docx_return" \/ Returned) =>
             calls.ocr = Cardinality(DocxImageRels(Len(Docx.rels)))
        /\ pc = "done" => response.status = 200

\* a document with more than 50 characters of paragraph and table text and
\* two embedded images: both were sent to ocr_image, the first gave no
\* usable text, the second was recognized and alone gave a record
C28_Witness ==
    /\ Returned
    /\ file_type = "docx" /\ input.file.kind = "docx"
    /\ Len(Docx.rels) = 2
    /\ Len(Docx.paragraphs) = 2 /\ Len(Docx.tables) = 2
    /\ Len(JoinBlocks(DocxParagraphBlocks(Docx.paragraphs)
                        \o DocxTableBlocks(Docx.tables))) > 50
    /\ calls.ocr = 2
    /\ Len(result.images) = 1
    /\ lastOcr.out.ret = Some(TLong)
    /\ ~cfg.vertex /\ ~cfg.openai

\* C29: method and confidence of every result of extract_pdf agree:
\* document_ai has confidence 0.70 or more; pymupdf has 0.85 with text and
\* 0.0 without; pymupdf_ocr has 0.6; unknown has 0.0 and neither blocks nor
\* text; and a result without text never has a confidence above 0.0.
C29_MethodConfidence ==
    (file_type = "pdf" /\ Returned) =>
        /\ result.method \in {"document_ai", "pymupdf", "pymupdf_ocr", "unknown"}
        /\ result.method = "document_ai" => QGe(result.confidence, Pct(70))
        /\ result.method = "pymupdf" =>
             QEq(result.confidence, IF result.raw_text # <<>> THEN Pct(85) ELSE Pct(0))
        /\ result.method = "pymupdf_ocr" => QEq(result.confidence, Pct(60))
        /\ result.method = "unknown" =>
             /\ QEq(result.confidence, Pct(0))
             /\ result.text_blocks = <<>>
             /\ result.raw_text = <<>>
        /\ result.raw_text = <<>> => QEq(result.confidence, Pct(0))

\* the image_ocr blocks bs and the image records ims correspond one to one
\* and in order; marker is what the block text carries before the
\* recognized text, with_page says whether the records carry the page
Corresponds(bs, ims, marker, with_page) ==
    /\ Len(ImageOcrBlocks(bs)) = Len(ims)
    /\ \A k \in 1..Len(ims) :
         /\ ImageOcrBlocks(bs)[k].text = marker \o ims[k].ocr_text
         /\ with_page => ims[k].page = ImageOcrBlocks(bs)[k].page

\* C30: in extract_pptx and extract_docx, all along the extraction and in
\* the result, there are as many image_ocr blocks as image records, and the
\* k-th record holds the recognized text of the k-th image_ocr block, for
\* PPTX on the same slide.
C30_ImageRecordsMatchBlocks ==
    /\ (file_type = "pptx" /\ input.file.kind = "pptx") =>
         /\ Corresponds(text_blocks, images, <<>>, TRUE)
         /\ Returned => Corresponds(result.text_blocks, result.images, <<>>, TRUE)
    /\ (file_type = "docx" /\ input.file.kind = "docx") =>
         /\ Corresponds(text_blocks, images, S_ImageText, FALSE)
         /\ Returned => Corresponds(result.text_blocks, result.images, S_ImageText, FALSE)

\* a deck whose two slides each gave a recognized image, with two different
\* texts, among other blocks
C30_Witness ==
    /\ Returned
    /\ file_type = "pptx" /\ input.file.kind = "pptx"
    /\ Len(result.images) = 2
    /\ result.images[1].page = 1 /\ result.images[2].page = 2
    /\ result.images[1].ocr_text = T22 /\ result.images[2].ocr_text = TLong
    /\ Len(result.text_blocks) > 2

====
